---- MODULE Spec2Model ----
(***************************************************************************)
(* A model of the Stooq tape pipeline of LeopoldN/liberalmarkets           *)
(* (the current fetch-tape script: src/unnamed/part_001, lines 522-1070).  *)
(*                                                                         *)
(*   SpecRetry  one call of fetchTextWithRetry against an arbitrary server *)
(*   SpecOne    one call of fetchOne (daily CSV, quote fallback, prior-run *)
(*              fallback) for one watch item                               *)
(*   Spec       one run of the script: the time gate, then main with both  *)
(*              watch lists through fetchInBatches, the two output files   *)
(*              and the exit code                                          *)
(*                                                                         *)
(* The code is single-threaded async JavaScript; an action is the code     *)
(* that runs between two awaits (a fetch or a body read completing, a file *)
(* read or written, a directory made, a sleep elapsing) or a call          *)
(* returning to its caller.  The FRED script (src/unnamed/part_004) and    *)
(* the news script (src/unnamed/part_000) are modelled the same way.       *)
(***************************************************************************)
EXTENDS Integers, Sequences, FiniteSets, TLC

VARIABLES
  \* fetchTextWithRetry
  rpc,        \* "idle" | "fetch" | "body" | "sleep" | "returned" | "threw"
  label,      \* the label argument of the call
  attempt,    \* the loop variable
  lastErr,    \* the local lastErr
  res,        \* what the current attempt's fetch produced (response or exception)
  bodyRes,    \* what the current attempt's res.text() produced
  waitMs,     \* the delay handed to sleepMs in the current iteration
  rret,       \* the text the call returned
  rthrown,    \* the error the call threw
  history,    \* statuses received by this call so far (0: an exception)
  nFetch,     \* fetch() calls issued by this call
  nSleep,     \* sleepMs() calls issued by this call
  inFlight,   \* fetch() calls of the process that have not settled yet
  \* fetchOne
  opc,        \* "idle" | "daily" | "quote" | "quote2" | "done"
  w,          \* the watch item argument
  fallbackMap,\* the fallbackMap argument (the prior run's items by symbol)
  nLines,     \* lines.length of the daily CSV (-1 until lines is assigned)
  cur,        \* the locals date, close, prevDate, prevClose, deltaPct
  item,       \* the record fetchOne returned
  nQuote,     \* fetchStooqQuote calls made by this fetchOne call
  \* fetchInBatches
  bpc,        \* "idle" | "item" | "gap" | "pause" | "returned"
  list,       \* the list argument
  bi,         \* the outer loop variable i (start of the current batch)
  bk,         \* 0-based position of the current item in the list
  out,        \* the local out
  pauseMs,    \* the delay sleepJitter handed to sleepMs
  nGap,       \* per-item sleeps started by this call
  nPause,     \* batch pauses started by this call
  \* main
  mpc,        \* "gate" | "skipped" | "start" | "reading" | "tape" | "writeTape" |
              \* "heatmap" | "writeHeatmap" | "exited"
  now,        \* the New York wall clock at the start of the run
  pendingReads, \* the paths whose fs.readFile has not settled yet
  priorTapeMap, \* the local priorTapeMap
  priorHeatmapMap, \* the local priorHeatmapMap
  results,    \* the local results
  tapeFile,   \* tape.json
  heatmapFile,\* heatmap.json
  exitCode,   \* the process exit code (-1 while running)
  writes,     \* the paths fs.writeFile has written, in order
  \* a direct call of parseLastCloseMaybePrev
  ppc,        \* "idle" | "call" | "done"
  pcsv,       \* the csv argument
  pret,       \* what the call returned or threw
  \* the FRED script's main
  fpc,        \* "idle" | "start" | "mkdir" | "fetch" | "json" | "read" | "write" |
              \* "readIncome" | "readHouse" | "writeRatio" | "exited"
  apiKey,     \* process.env.FRED_API_KEY
  dirExists,  \* whether the data directory exists
  si,         \* 1-based position of the loop over SERIES
  dataFiles,  \* the files of the data directory, by name without ".csv"
  flog,       \* what each pass of the loop fetched, counted and wrote
  fexit,      \* the process exit code (-1 while running)
  frun,       \* the number of the current run of the script
  filesAtStart, \* the data directory as the current run found it
  fres,       \* the response whose res.json() has not settled yet
  fObs,       \* the local observations
  fBefore,    \* the local existing, as the file read
  fAfter,     \* the content handed to the fs.writeFile that has not settled yet
  fChanged,   \* the local changed
  fIncome,    \* the local income
  ferr,       \* the error main rejected with ("" while there is none)
  \* a direct call of asOf
  apc,        \* "idle" | "call" | "done"
  aseries,    \* the series argument
  atarget,    \* the targetDate argument
  abest,      \* the value returned
  \* the news script's main
  npc,        \* "idle" | "fetch" | "body" | "mkdir" | "write" | "exited"
  xml,        \* the local xml: the feed, as its segments
  nitems,     \* the local items: what parseRss returned
  newsFile,   \* data/news.json
  nexit       \* the process exit code (-1 while running)

rvars == <<rpc, label, attempt, lastErr, res, bodyRes, waitMs, rret, rthrown, history, nFetch, nSleep, inFlight>>
ovars == <<opc, w, fallbackMap, nLines, cur, item, nQuote>>
bvars == <<bpc, list, bi, bk, out, pauseMs, nGap, nPause>>
mvars == <<mpc, now, pendingReads, priorTapeMap, priorHeatmapMap, results, tapeFile, heatmapFile, exitCode, writes>>
pvars == <<ppc, pcsv, pret>>
\* The state outside the tape run, which no step of the tape run touches.
flocals == <<fres, fObs, fBefore, fAfter, fChanged, fIncome>>
\* The FRED script's own state; the data directory is the news script's too.
frest == <<fpc, apiKey, si, dataFiles, flog, fexit, frun, filesAtStart, flocals, ferr>>
fvars == <<frest, dirExists>>
avars == <<apc, aseries, atarget, abest>>
nvars == <<npc, xml, nitems, newsFile, nexit>>
tvars == <<rvars, ovars, bvars, mvars>>
xvars == <<pvars, fvars, avars, nvars>>
vars == <<rvars, ovars, bvars, mvars, xvars>>

(***************************************************************************)
(* JavaScript values: numbers are exact rationals n/d (d = 0 is NaN),      *)
(* beside null, undefined and strings.                                     *)
(***************************************************************************)
Abs(x) == IF x < 0 THEN -x ELSE x

Min(a, b) == IF a <= b THEN a ELSE b

RECURSIVE GCD(_, _)
GCD(a, b) == IF b = 0 THEN a ELSE GCD(b, a % b)

JNull == [t |-> "null", n |-> 0, d |-> 1, s |-> ""]
JUndefined == [t |-> "undefined", n |-> 0, d |-> 1, s |-> ""]
JNaN == [t |-> "number", n |-> 0, d |-> 0, s |-> ""]
JStr(str) == [t |-> "string", n |-> 0, d |-> 1, s |-> str]

\* The number n/d in lowest terms with a positive denominator (d # 0).
JNum(n, d) ==
  LET g == GCD(Abs(n), Abs(d))
      sg == IF d < 0 THEN -1 ELSE 1
  IN [t |-> "number", n |-> (sg * n) \div g, d |-> Abs(d) \div g, s |-> ""]

JInt(i) == JNum(i, 1)

\* Number.isFinite(v): no coercion, so null, undefined and strings are not finite.
IsFinite(v) == v.t = "number" /\ v.d # 0

\* Numeric literals the modelled texts and headers use, as Number() reads them.
\* Number("") is 0; anything that is not a numeric literal is NaN.
NumberOfString(str) ==
  CASE str = "" -> JInt(0)
    [] str = " " -> JInt(0)
    [] str = "0" -> JInt(0)
    [] str = "2" -> JInt(2)
    [] str = "20" -> JInt(20)
    [] str = "-1" -> JInt(-1)
    [] str = "0.0015" -> JNum(3, 2000)
    [] str = "50" -> JInt(50)
    [] str = "100" -> JInt(100)
    [] str = "110" -> JInt(110)
    [] str = "101.5" -> JNum(203, 2)
    [] str = "1.0" -> JInt(1)
    [] str = "2.0" -> JInt(2)
    [] str = "2.5" -> JNum(5, 2)
    [] OTHER -> JNaN

\* Number(v)
ToNumber(v) ==
  CASE v.t = "number" -> v
    [] v.t = "null" -> JInt(0)
    [] v.t = "undefined" -> JNaN
    [] v.t = "string" -> NumberOfString(v.s)

\* JavaScript truthiness
Truthy(v) ==
  CASE v.t = "number" -> v.d # 0 /\ v.n # 0
    [] v.t = "string" -> v.s # ""
    [] OTHER -> FALSE

(***************************************************************************)
(* Retry policy                                                            *)
(***************************************************************************)
RETRY_COUNT == 4
BACKOFF_BASE_MS == 800
BACKOFF_MAX_MS == 15000

\* Math.random() in thousandths: u stands for the draw u / 1000 in [0, 1).
RandomDraws == {0, 500, 999}

\* Math.floor(Math.random() * 250)
BackoffJitter(u) == (u * 250) \div 1000

BackoffDelayMs(k, u) ==
  LET exp == Min(BACKOFF_MAX_MS, BACKOFF_BASE_MS * (2 ^ k))
  IN exp + BackoffJitter(u)

IsRetryableStatus(status) ==
  status = 429 \/ status = 500 \/ status = 502 \/ status = 503 \/ status = 504

\* Response.ok
ResOk(status) == status >= 200 /\ status <= 299

\* Errors: new Error(`${label} HTTP ${status}`), an exception of fetch()/text(),
\* and new Error(text) of the parsers.
NoLabel == [ep |-> "", sym |-> ""]
NoErr == [kind |-> "null", label |-> NoLabel, status |-> 0, text |-> ""]
HttpError(lbl, status) == [kind |-> "http", label |-> lbl, status |-> status, text |-> ""]
NetError(e) == [kind |-> "net", label |-> NoLabel, status |-> 0, text |-> e]
ParseError(m) == [kind |-> "parse", label |-> NoLabel, status |-> 0, text |-> m]

\* What one fetch attempt produced: a response (status, Retry-After header, body)
\* or an exception thrown by fetch() or by res.text().
NoBody == << >>
Response(status, ra, body) ==
  [kind |-> "response", status |-> status, ra |-> ra, body |-> body, err |-> ""]
Exception(e) ==
  [kind |-> "exception", status |-> 0, ra |-> JNull, body |-> NoBody, err |-> e]
NoRes == [kind |-> "none", status |-> 0, ra |-> JNull, body |-> NoBody, err |-> ""]

\* What await res.text() produced: nothing yet, the body, or a rejection.
NoRead == [kind |-> "none", err |-> ""]
Resolved == [kind |-> "text", err |-> ""]
Rejected(e) == [kind |-> "rejected", err |-> e]

RetryWaitMsUncapped(ra, k, u) ==
  LET raNum == ToNumber(ra)
  IN IF Truthy(ra) /\ IsFinite(raNum) /\ raNum.n >= 0
       THEN (raNum.n * 1000) \div raNum.d
       ELSE BackoffDelayMs(k, u)

\* The wait after a retryable status: backoff, overridden by a usable Retry-After.
RetryWaitMs(ra, k, u) ==
  LET raNum == ToNumber(ra)
  IN IF Truthy(ra) /\ IsFinite(raNum) /\ raNum.n >= 0
       THEN Min(BACKOFF_MAX_MS, (raNum.n * 1000) \div raNum.d)
       ELSE BackoffDelayMs(k, u)

\* fetch(url, options) is called: one more request is on the wire.
Issued(n) == n + 1

\* A fetch promise that is left behind without being awaited.
Abandoned(n) == n

\* await fetch(...) resumes: the request has been answered or has failed.
Settled(n) == n - 1

IsLastAttemptOffByOne(k) == k = RETRY_COUNT + 1

\* The loop's last iteration.
IsLastAttempt(k) == k = RETRY_COUNT

CatchFirstErr(old, e) == IF old.kind = "null" THEN e ELSE old

\* The catch block's assignment to lastErr.
CatchLastErr(old, e) == e

\* fetchTextWithRetry is called: the loop starts at attempt 0.
CallFetchText(lbl) ==
  /\ rpc' = "fetch"
  /\ label' = lbl
  /\ attempt' = 0
  /\ lastErr' = NoErr
  /\ res' = NoRes
  /\ bodyRes' = NoRead
  /\ waitMs' = 0
  /\ rret' = NoBody
  /\ rthrown' = NoErr
  /\ history' = << >>
  /\ nFetch' = 0
  /\ nSleep' = 0
  /\ inFlight' = Issued(inFlight)

\* The catch block: remember the error; on the last attempt leave the loop and
\* throw it, otherwise back off and go round again.
Catch(e, u) ==
  /\ lastErr' = CatchLastErr(lastErr, e)
  /\ IF IsLastAttempt(attempt)
       THEN /\ rpc' = "threw"
            /\ rthrown' = lastErr'
            /\ UNCHANGED <<waitMs, nSleep>>
       ELSE /\ rpc' = "sleep"
            /\ waitMs' = BackoffDelayMs(attempt, u)
            /\ nSleep' = nSleep + 1
            /\ UNCHANGED rthrown
  /\ UNCHANGED rret

\* await fetch(url, options) settles: r is what the fetch produced, u the
\* Math.random() draw of backoffDelayMs.  With an OK response the code goes
\* on to await res.text().
Attempt(r, u) ==
  /\ rpc = "fetch"
  /\ res' = r
  /\ bodyRes' = NoRead
  /\ nFetch' = nFetch + 1
  /\ inFlight' = Settled(inFlight)
  /\ history' = Append(history, r.status)
  /\ UNCHANGED <<label, attempt, ovars, bvars, mvars, xvars>>
  /\ IF r.kind = "exception"
       THEN Catch(NetError(r.err), u)
       ELSE IF ResOk(r.status)
         THEN /\ rpc' = "body"
              /\ UNCHANGED <<lastErr, waitMs, rret, rthrown, nSleep>>
         ELSE IF ~IsRetryableStatus(r.status) \/ IsLastAttempt(attempt)
           THEN Catch(HttpError(label, r.status), u)
           ELSE /\ rpc' = "sleep"
                /\ waitMs' = RetryWaitMs(r.ra, attempt, u)
                /\ nSleep' = nSleep + 1
                /\ UNCHANGED <<lastErr, rret, rthrown>>

\* await res.text() settles: the body is returned, or the rejection is
\* caught like a rejection of fetch (u is the draw of backoffDelayMs).
ReadBody(o, u) ==
  /\ rpc = "body"
  /\ bodyRes' = o
  /\ UNCHANGED <<label, attempt, res, history, nFetch, inFlight, ovars, bvars, mvars, xvars>>
  /\ IF o.kind = "text"
       THEN /\ rpc' = "returned"
            /\ rret' = res.body
            /\ UNCHANGED <<lastErr, waitMs, rthrown, nSleep>>
       ELSE Catch(NetError(o.err), u)

\* A loop whose counter is never incremented.
SameAttempt(k) == k

\* The loop's increment attempt++
NextAttempt(k) == k + 1

\* The loop condition attempt <= RETRY_COUNT
LoopContinues(k) == k <= RETRY_COUNT

\* The sleep elapsed: attempt++, then the loop condition attempt <= RETRY_COUNT:
\* the next iteration's fetch is issued, or the loop is left and lastErr thrown.
Wake ==
  /\ rpc = "sleep"
  /\ attempt' = NextAttempt(attempt)
  /\ res' = NoRes
  /\ bodyRes' = NoRead
  /\ waitMs' = 0
  /\ IF LoopContinues(attempt')
       THEN rpc' = "fetch" /\ inFlight' = Issued(inFlight) /\ UNCHANGED rthrown
       ELSE rpc' = "threw" /\ rthrown' = lastErr /\ UNCHANGED inFlight
  /\ UNCHANGED <<label, lastErr, rret, history, nFetch, nSleep, ovars, bvars, mvars, xvars>>

(***************************************************************************)
(* Texts and parsers.  A text is its lines (split on "\n"), a line its     *)
(* fields (split on ","); the empty line is <<"">>.                        *)
(***************************************************************************)
EmptyLine == <<"">>

\* White space at the ends of a string, on the literals of the modelled texts
\* that carry any: a space, or the "\r" of a CRLF line end.
Blank(str) == str \in {"", " ", "\r"}

TrimStart(str) ==
  CASE str = " 1.0" -> "1.0"
    [] str = " 2024-02-01" -> "2024-02-01"
    [] Blank(str) -> ""
    [] OTHER -> str

TrimEnd(str) ==
  CASE str = "2.0 " -> "2.0"
    [] str = "20\r" -> "20"
    [] str = "Volume\r" -> "Volume"
    [] Blank(str) -> ""
    [] OTHER -> str

\* str.trim()
Trim(str) == TrimEnd(TrimStart(str))

\* A line of white space only (it has no comma).
BlankLine(line) == Len(line) = 1 /\ Blank(line[1])

RECURSIVE DropBlankHead(_)
DropBlankHead(text) ==
  IF text # << >> /\ BlankLine(text[1]) THEN DropBlankHead(Tail(text)) ELSE text

RECURSIVE DropBlankTail(_)
DropBlankTail(text) ==
  IF text # << >> /\ BlankLine(text[Len(text)])
    THEN DropBlankTail(SubSeq(text, 1, Len(text) - 1))
    ELSE text

\* text.trim() on a text held as its lines: the white-space lines at both ends
\* go, then the white space before the first field and after the last one.
TrimLines(text) ==
  LET t == DropBlankTail(DropBlankHead(text))
  IN IF t = << >> THEN << >>
     ELSE LET h == [t EXCEPT ![1] = [@ EXCEPT ![1] = TrimStart(@)]]
          IN [h EXCEPT ![Len(h)] = [@ EXCEPT ![Len(@)] = TrimEnd(@)]]

\* csv.trim().split("\n").filter(Boolean): the non-empty lines.
NonEmptyLines(text) == SelectSeq(TrimLines(text), LAMBDA l : l # EmptyLine)

\* line.split(",")[i], undefined past the last field.
Field(line, i) == IF i + 1 <= Len(line) THEN JStr(line[i + 1]) ELSE JUndefined

\* What a parser produced: the fields it returned, or the error it threw.
Returned(date, close, prevDate, prevClose) ==
  [threw |-> FALSE, err |-> NoErr, date |-> date, close |-> close,
   prevDate |-> prevDate, prevClose |-> prevClose]
Threw(e) ==
  [threw |-> TRUE, err |-> e, date |-> JUndefined, close |-> JUndefined,
   prevDate |-> JNull, prevClose |-> JNull]

NoTwoDataRows(n) == n < 3

\* lines.length < 2: not even header + 1 row.
NoDataRow(n) == n < 2

HasLineBeforeLast(n) == n >= 2

\* lines.length >= 3: there is a line before the last row to read as previous.
HasPrevRow(n) == n >= 3

ParseLastCloseMaybePrev(text) ==
  LET lines == NonEmptyLines(text)
  IN IF NoDataRow(Len(lines))
       THEN Threw(ParseError("No daily data returned (header-only CSV)"))
       ELSE LET last == lines[Len(lines)]
                date == Field(last, 0)
                close == ToNumber(Field(last, 4))
            IN IF ~IsFinite(close)
                 THEN Threw(ParseError("Close value is not numeric"))
                 ELSE IF HasPrevRow(Len(lines))
                   THEN LET prev == lines[Len(lines) - 1]
                            prevDate == Field(prev, 0)
                            prevClose == ToNumber(Field(prev, 4))
                        IN IF ~IsFinite(prevClose)
                             THEN Returned(date, close, JNull, JNull)
                             ELSE Returned(date, close, prevDate, prevClose)
                   ELSE Returned(date, close, JNull, JNull)

\* fetchStooqQuote after its fetch: the second line is the quote row.
ParseQuote(text) ==
  LET lines == NonEmptyLines(text)
  IN IF Len(lines) < 2
       THEN Threw(ParseError("No quote data returned"))
       ELSE LET row == lines[2]
                date == Field(row, 1)
                close == ToNumber(Field(row, 3))
            IN IF ~IsFinite(close)
                 THEN Threw(ParseError("Quote close not numeric"))
                 ELSE Returned(date, close, JNull, JNull)

\* ((close / prevClose) - 1) * 100, for finite close and finite non-zero prevClose.
PctChange(close, prevClose) ==
  JNum(100 * (close.n * prevClose.d - close.d * prevClose.n), close.d * prevClose.n)

\* x !== null && x !== 0, and Number.isFinite(x) && x !== 0
IsZero(v) == v.t = "number" /\ v.d # 0 /\ v.n = 0
FiniteNonZero(v) == IsFinite(v) /\ ~IsZero(v)

(***************************************************************************)
(* The prior run's output as a fallback                                    *)
(***************************************************************************)
NoFallback ==
  [present |-> FALSE, date |-> JNull, close |-> JNaN, prevDate |-> JNull, prevClose |-> JNull]

\* The entry readExistingItemsMap keeps for one item of the file.
FallbackEntry(it) ==
  [present |-> TRUE,
   date |-> IF it.date.t = "string" THEN it.date ELSE JNull,
   close |-> ToNumber(it.close),
   prevDate |-> IF it.prevDate.t = "string" THEN it.prevDate ELSE JNull,
   prevClose |-> IF IsFinite(ToNumber(it.prevClose)) THEN ToNumber(it.prevClose) ELSE JNull]

\* Items that are not ok or whose close is not finite are skipped.
KeepsItem(it) == it.ok /\ IsFinite(ToNumber(it.close))

RECURSIVE ItemsMap(_)
ItemsMap(items) ==
  IF items = << >> THEN << >>
  ELSE LET it == items[Len(items)]
           rest == ItemsMap(SubSeq(items, 1, Len(items) - 1))
       IN IF KeepsItem(it) THEN (it.sym :> FallbackEntry(it)) @@ rest ELSE rest

\* A file that cannot be read or parsed gives the empty map.
NoFile == [exists |-> FALSE, items |-> << >>]
FileOf(items) == [exists |-> TRUE, items |-> items]
ReadExistingItemsMap(file) == IF file.exists THEN ItemsMap(file.items) ELSE << >>

\* fallbackMap?.get(sym)
MapGet(m, sym) == IF sym \in DOMAIN m THEN m[sym] ELSE NoFallback

ApplyPrevFallbackStaleDelta(c, fb) ==
  IF FiniteNonZero(c.prevClose) \/ ~fb.present
    THEN c
    ELSE LET fbDate == IF fb.date.t = "string" THEN fb.date ELSE JNull
             fbClose == ToNumber(fb.close)
             fbPrevDate == IF fb.prevDate.t = "string" THEN fb.prevDate ELSE JNull
             fbPrevClose == ToNumber(fb.prevClose)
         IN IF Truthy(fbDate) /\ fbDate # c.date /\ FiniteNonZero(fbClose)
              THEN [c EXCEPT !.prevDate = fbDate, !.prevClose = fbClose]
              ELSE IF FiniteNonZero(fbPrevClose)
                THEN [c EXCEPT !.prevDate = fbPrevDate, !.prevClose = fbPrevClose]
                ELSE c

\* The guard without its prevOk part: if (!fallback) return cur
PrevOkIgnored(c) == FALSE

\* prevOk: Number.isFinite(cur.prevClose) && cur.prevClose !== 0
PrevOk(c) == FiniteNonZero(c.prevClose)

\* applyPrevFallback(cur, fallback)
ApplyPrevFallback(c, fb) ==
  IF PrevOk(c) \/ ~fb.present
    THEN c
    ELSE LET fbDate == IF fb.date.t = "string" THEN fb.date ELSE JNull
             fbClose == ToNumber(fb.close)
             fbPrevDate == IF fb.prevDate.t = "string" THEN fb.prevDate ELSE JNull
             fbPrevClose == ToNumber(fb.prevClose)
             c1 == IF Truthy(fbDate) /\ fbDate # c.date /\ FiniteNonZero(fbClose)
                     THEN [c EXCEPT !.prevDate = fbDate, !.prevClose = fbClose]
                     ELSE IF FiniteNonZero(fbPrevClose)
                       THEN [c EXCEPT !.prevDate = fbPrevDate, !.prevClose = fbPrevClose]
                       ELSE c
         IN IF FiniteNonZero(c1.prevClose)
              THEN [c1 EXCEPT !.deltaPct = PctChange(c1.close, c1.prevClose)]
              ELSE c1

(***************************************************************************)
(* fetchOne                                                                *)
(***************************************************************************)
DailyLabel(sym) == [ep |-> "Daily CSV", sym |-> sym]
QuoteLabel(sym) == [ep |-> "Quote", sym |-> sym]

\* let date, close, prevDate = null, prevClose = null, deltaPct = 0
FreshLocals ==
  [date |-> JUndefined, close |-> JUndefined, prevDate |-> JNull, prevClose |-> JNull,
   deltaPct |-> JInt(0)]

NoItem ==
  [sym |-> "", name |-> "", group |-> JNull, ok |-> FALSE, date |-> JUndefined,
   close |-> JUndefined, prevDate |-> JUndefined, prevClose |-> JUndefined,
   deltaPct |-> JUndefined, error |-> NoErr]

\* The record of the try block's return.
OkItem(wi, c) ==
  [sym |-> wi.sym, name |-> wi.name, group |-> wi.group, ok |-> TRUE, date |-> c.date,
   close |-> c.close, prevDate |-> c.prevDate, prevClose |-> c.prevClose,
   deltaPct |-> c.deltaPct, error |-> NoErr]

ErrorStubWithNulls(wi, e) ==
  [sym |-> wi.sym, name |-> wi.name, group |-> wi.group, ok |-> FALSE, date |-> JNull,
   close |-> JNull, prevDate |-> JNull, prevClose |-> JNull, deltaPct |-> JInt(0),
   error |-> e]

\* The record of the catch block's return: no quote fields at all.
ErrorStub(wi, e) ==
  [sym |-> wi.sym, name |-> wi.name, group |-> wi.group, ok |-> FALSE, date |-> JUndefined,
   close |-> JUndefined, prevDate |-> JUndefined, prevClose |-> JUndefined,
   deltaPct |-> JUndefined, error |-> e]

\* The locals after a daily CSV with at least two lines was parsed.
LocalsOfParsed(parsed) ==
  [date |-> parsed.date, close |-> parsed.close, prevDate |-> parsed.prevDate,
   prevClose |-> parsed.prevClose,
   deltaPct |-> IF parsed.prevClose.t # "null" /\ ~IsZero(parsed.prevClose)
                  THEN PctChange(parsed.close, parsed.prevClose)
                  ELSE JInt(0)]

\* The locals after the first quote (daily CSV without any line).
LocalsOfQuote(c, q) == [c EXCEPT !.date = q.date, !.close = q.close, !.deltaPct = JInt(0)]

\* The locals after the quote of the header-only branch.
LocalsOfHeaderOnlyQuote(c, q) ==
  [c EXCEPT !.date = q.date, !.close = q.close, !.prevDate = JNull, !.prevClose = JNull,
            !.deltaPct = JInt(0)]

\* lines.length >= 2 fails: the else branch asks for a quote.
DailyNeedsQuote(n) == ~(n >= 2)

HeaderOnlyOneDataRow(n) == n = 2

\* lines.length === 1: the header-only branch asks for a quote.
HeaderOnly(n) == n = 1

\* fetchOne(wi, fmap) is called: the daily CSV is requested.
CallFetchOne(wi, fmap) ==
  /\ opc' = "daily"
  /\ w' = wi
  /\ fallbackMap' = fmap
  /\ nLines' = -1
  /\ cur' = FreshLocals
  /\ item' = NoItem
  /\ nQuote' = 0
  /\ CallFetchText(DailyLabel(wi.sym))

\* The try block ends: applyPrevFallback, then the ok record is returned.
ReturnOk(c) ==
  /\ opc' = "done"
  /\ item' = OkItem(w, ApplyPrevFallback(c, MapGet(fallbackMap, w.sym)))
  /\ rpc' = "idle"
  /\ UNCHANGED <<label, attempt, lastErr, res, bodyRes, waitMs, rret, rthrown, history, nFetch,
                 nSleep,
                 inFlight>>

\* The catch block: the error stub is returned.
ReturnStub(e) ==
  /\ opc' = "done"
  /\ item' = ErrorStub(w, e)
  /\ rpc' = "idle"
  /\ UNCHANGED <<label, attempt, lastErr, res, bodyRes, waitMs, rret, rthrown, history, nFetch,
                 nSleep,
                 inFlight>>

\* fetchStooqQuote is called.
CallQuote(next) ==
  /\ opc' = next
  /\ nQuote' = nQuote + 1
  /\ UNCHANGED item
  /\ CallFetchText(QuoteLabel(w.sym))

\* fetchStooqDailyCsv returned the CSV.
DailyReturned ==
  /\ opc = "daily" /\ rpc = "returned"
  /\ LET lines == NonEmptyLines(rret)
     IN /\ nLines' = Len(lines)
        /\ IF DailyNeedsQuote(Len(lines))
             THEN CallQuote("quote") /\ UNCHANGED cur
             ELSE LET parsed == ParseLastCloseMaybePrev(rret)
                  IN IF parsed.threw
                       THEN ReturnStub(parsed.err) /\ UNCHANGED <<cur, nQuote>>
                       ELSE /\ cur' = LocalsOfParsed(parsed)
                            /\ IF HeaderOnly(Len(lines))
                                 THEN CallQuote("quote2")
                                 ELSE ReturnOk(LocalsOfParsed(parsed)) /\ UNCHANGED nQuote
  /\ UNCHANGED <<w, fallbackMap, bvars, mvars, xvars>>

FetchThrewThenQuote ==
  /\ opc \in {"daily", "quote", "quote2"} /\ rpc = "threw"
  /\ IF opc = "daily" THEN CallQuote("quote") ELSE ReturnStub(rthrown) /\ UNCHANGED nQuote
  /\ UNCHANGED <<w, fallbackMap, nLines, cur, bvars, mvars, xvars>>

\* fetchStooqDailyCsv or fetchStooqQuote threw what fetchTextWithRetry threw.
FetchThrew ==
  /\ opc \in {"daily", "quote", "quote2"} /\ rpc = "threw"
  /\ ReturnStub(rthrown)
  /\ UNCHANGED <<w, fallbackMap, nLines, cur, nQuote, bvars, mvars, xvars>>

\* The quote of the else branch (no line at all, or header only) arrived.
QuoteReturned ==
  /\ opc = "quote" /\ rpc = "returned"
  /\ LET q == ParseQuote(rret)
     IN IF q.threw
          THEN ReturnStub(q.err) /\ UNCHANGED <<cur, nQuote>>
          ELSE /\ cur' = LocalsOfQuote(cur, q)
               /\ IF HeaderOnly(nLines)
                    THEN CallQuote("quote2")
                    ELSE ReturnOk(LocalsOfQuote(cur, q)) /\ UNCHANGED nQuote
  /\ UNCHANGED <<w, fallbackMap, nLines, bvars, mvars, xvars>>

\* The quote of the header-only branch arrived.
HeaderOnlyQuoteReturned ==
  /\ opc = "quote2" /\ rpc = "returned"
  /\ LET q == ParseQuote(rret)
     IN IF q.threw
          THEN ReturnStub(q.err) /\ UNCHANGED cur
          ELSE /\ cur' = LocalsOfHeaderOnlyQuote(cur, q)
               /\ ReturnOk(LocalsOfHeaderOnlyQuote(cur, q))
  /\ UNCHANGED <<w, fallbackMap, nLines, nQuote, bvars, mvars, xvars>>

(***************************************************************************)
(* fetchInBatches                                                          *)
(***************************************************************************)
REQUEST_GAP_MS == 800
REQUEST_JITTER_MS == 400
BATCH_SIZE == 10
BATCH_PAUSE_MS == 7000
BATCH_JITTER_MS == 2000

\* sleepJitter's delay: base plus Math.floor(Math.random() * (jitter + 1)).
SleepJitterMs(baseMs, jitterMs, u) ==
  LET b == IF baseMs > 0 THEN baseMs ELSE 0
      j == IF jitterMs > 0 THEN jitterMs ELSE 0
      extra == IF j # 0 THEN (u * (j + 1)) \div 1000 ELSE 0
  IN b + extra

\* The end (exclusive) of the batch list.slice(i, i + BATCH_SIZE).
BatchEnd(i, total) == Min(i + BATCH_SIZE, total)

\* i + BATCH_SIZE <= total
PausesAfterFullBatch(i, total) == i + BATCH_SIZE <= total

\* Whether the loop pauses after the batch that starts at i.
PausesAfterBatch(i, total) == i + BATCH_SIZE < total

PushOkItemOnly(o, it) == IF it.ok THEN Append(o, it) ELSE o

\* out.push(item)
PushItem(o, it) == Append(o, it)

\* fetchInBatches(label, lst, fmap) is called.
CallFetchInBatches(lst, fmap) ==
  /\ list' = lst
  /\ out' = << >>
  /\ bi' = 0
  /\ bk' = 0
  /\ pauseMs' = 0
  /\ nGap' = 0
  /\ nPause' = 0
  /\ IF Len(lst) = 0
       THEN /\ bpc' = "returned"
            /\ fallbackMap' = fmap
            /\ UNCHANGED <<opc, w, nLines, cur, item, nQuote, rvars>>
       ELSE /\ bpc' = "item"
            /\ CallFetchOne(lst[1], fmap)

\* fetchOne returned: the item is pushed and the per-item sleep starts.
ItemReturned(u) ==
  /\ bpc = "item" /\ opc = "done"
  /\ out' = PushItem(out, item)
  /\ bpc' = "gap"
  /\ pauseMs' = SleepJitterMs(REQUEST_GAP_MS, REQUEST_JITTER_MS, u)
  /\ nGap' = nGap + 1
  /\ opc' = "idle"
  /\ UNCHANGED <<list, bi, bk, nPause, w, fallbackMap, nLines, cur, item, nQuote, rvars, mvars, xvars>>

\* The per-item sleep elapsed: the next item of the batch, or the end of the
\* batch and then the batch pause or the end of the outer loop.
GapElapsed(u) ==
  /\ bpc = "gap"
  /\ LET total == Len(list)
     IN IF bk + 1 < BatchEnd(bi, total)
          THEN /\ bk' = bk + 1
               /\ bpc' = "item"
               /\ CallFetchOne(list[bk + 2], fallbackMap)
               /\ UNCHANGED <<bi, pauseMs, nPause>>
          ELSE IF PausesAfterBatch(bi, total)
            THEN /\ bpc' = "pause"
                 /\ pauseMs' = SleepJitterMs(BATCH_PAUSE_MS, BATCH_JITTER_MS, u)
                 /\ nPause' = nPause + 1
                 /\ UNCHANGED <<bi, bk, ovars, rvars>>
            ELSE /\ bpc' = "returned"
                 /\ bi' = bi + BATCH_SIZE
                 /\ UNCHANGED <<bk, pauseMs, nPause, ovars, rvars>>
  /\ UNCHANGED <<list, out, nGap, mvars, xvars>>

\* The batch pause elapsed: i += BATCH_SIZE and the next batch starts.
PauseElapsed ==
  /\ bpc = "pause"
  /\ bi' = bi + BATCH_SIZE
  /\ bk' = bi'
  /\ bpc' = "item"
  /\ CallFetchOne(list[bi' + 1], fallbackMap)
  /\ UNCHANGED <<list, out, pauseMs, nGap, nPause, mvars, xvars>>

(***************************************************************************)
(* The time gate, called when the script is loaded, before main            *)
(***************************************************************************)
ALLOWED_TIMES == <<<<10, 0>>, <<16, 30>>>>
GRACE_MINUTES == 45

\* The New York wall clock: the short weekday name and the minute of the day.
NyTime(weekday, minutes) == [weekday |-> weekday, minutes |-> minutes]
NoTime == NyTime("", 0)

\* The "hour" part Intl.DateTimeFormat gives with hour12: false: the hour of
\* the day, midnight being rendered as "00" or as "24" depending on the
\* runtime's locale data.
FormattedHours(h) == IF h = 0 THEN {0, 24} ELSE {h}

\* Math.min(diff, 1440 - diff)
WrapDiff(diff) == Min(diff, 1440 - diff)

\* wrapDiff < graceMinutes
StrictlyWithinGrace(wrapDiff, graceMinutes) == wrapDiff < graceMinutes

\* wrapDiff <= graceMinutes
WithinGrace(wrapDiff, graceMinutes) == wrapDiff <= graceMinutes

\* allowedTimes.some(...)
TimeMatches(allowedTimes, graceMinutes, nowTotal) ==
  \E k \in 1..Len(allowedTimes) :
    LET target == allowedTimes[k][1] * 60 + allowedTimes[k][2]
        diff == Abs(nowTotal - target)
    IN WithinGrace(WrapDiff(diff), graceMinutes)

IsWeekend(weekday) == weekday = "Sat" \/ weekday = "Sun"

\* exitUnlessNYTimeMatches(allowedTimes, graceMinutes), the clock's hour being
\* formatted as hour: process.exit(0), or the script goes on to call main.
ExitUnlessNYTimeMatches(allowedTimes, graceMinutes, hour) ==
  /\ mpc = "gate"
  /\ LET minute == now.minutes % 60
         nowTotal == hour * 60 + minute
     IN IF IsWeekend(now.weekday) \/ ~TimeMatches(allowedTimes, graceMinutes, nowTotal)
          THEN /\ mpc' = "skipped"
               /\ exitCode' = 0
          ELSE /\ mpc' = "start"
               /\ UNCHANGED exitCode
  /\ UNCHANGED <<now, pendingReads, priorTapeMap, priorHeatmapMap, results, tapeFile, heatmapFile,
                 writes, rvars, ovars, bvars, xvars>>

(***************************************************************************)
(* main                                                                    *)
(***************************************************************************)
\* JSON.stringify writes NaN as null and leaves out undefined properties (which
\* stay undefined when the file is read back).
JsonValue(v) == IF v.t = "number" /\ v.d = 0 THEN JNull ELSE v

JsonItem(it) ==
  [it EXCEPT !.date = JsonValue(@), !.close = JsonValue(@), !.prevDate = JsonValue(@),
             !.prevClose = JsonValue(@), !.deltaPct = JsonValue(@), !.group = JsonValue(@)]

\* The payload's items as written to the file.
WrittenFile(items) == FileOf([k \in 1..Len(items) |-> JsonItem(items[k])])

\* results.filter((x) => x.ok).length
OkCount(items) == Cardinality({k \in 1..Len(items) : items[k].ok})

\* The paths of the two fs.writeFile calls.
HEATMAP_PATH == "heatmap.json"

\* The first write going to the second file's path.
WrongTapePath == "heatmap.json"

TAPE_PATH == "tape.json"

\* The exit code once both files are written: 2 when okCount is 0.
ExitCodeAfterRun(res_, heat) == IF OkCount(res_) = 0 THEN 2 ELSE 0

\* main is called: both readExistingItemsMap calls start and wait for their
\* fs.readFile; main waits for Promise.all of the two.
MainStart ==
  /\ mpc = "start"
  /\ mpc' = "reading"
  /\ pendingReads' = {TAPE_PATH, HEATMAP_PATH}
  /\ UNCHANGED <<now, priorTapeMap, priorHeatmapMap, results, tapeFile, heatmapFile, exitCode,
                 writes, rvars, ovars, bvars, xvars>>

\* The fs.readFile of one prior file settles and its readExistingItemsMap
\* returns the map; after the second one main goes on to fetch the tape list.
PriorFileRead(path, watch) ==
  /\ mpc = "reading"
  /\ path \in pendingReads
  /\ pendingReads' = pendingReads \ {path}
  /\ priorTapeMap' = IF path = TAPE_PATH THEN ReadExistingItemsMap(tapeFile) ELSE priorTapeMap
  /\ priorHeatmapMap' =
       IF path = HEATMAP_PATH THEN ReadExistingItemsMap(heatmapFile) ELSE priorHeatmapMap
  /\ IF pendingReads' = {}
       THEN /\ mpc' = "tape"
            /\ CallFetchInBatches(watch, priorTapeMap')
       ELSE UNCHANGED <<mpc, rvars, ovars, bvars>>
  /\ UNCHANGED <<now, results, tapeFile, heatmapFile, exitCode, writes, xvars>>

\* The tape list is done: main starts fs.writeFile("tape.json") and waits.
TapeFetched ==
  /\ mpc = "tape" /\ bpc = "returned"
  /\ results' = out
  /\ mpc' = "writeTape"
  /\ bpc' = "idle"
  /\ UNCHANGED <<now, pendingReads, priorTapeMap, priorHeatmapMap, tapeFile, heatmapFile, exitCode,
                 writes, list, bi, bk, out, pauseMs, nGap, nPause, rvars, ovars, xvars>>

\* The write of tape.json settles (wrote: whether fs.writeFile succeeded; its
\* rejection ends main with exit code 1), then the heatmap list is fetched.
TapeWritten(heatmap, wrote) ==
  /\ mpc = "writeTape"
  /\ IF wrote
       THEN /\ tapeFile' = WrittenFile(results)
            /\ writes' = Append(writes, TAPE_PATH)
            /\ mpc' = "heatmap"
            /\ CallFetchInBatches(heatmap, priorHeatmapMap)
            /\ UNCHANGED exitCode
       ELSE /\ mpc' = "exited"
            /\ exitCode' = 1
            /\ UNCHANGED <<tapeFile, writes, rvars, ovars, bvars>>
  /\ UNCHANGED <<now, pendingReads, priorTapeMap, priorHeatmapMap, results, heatmapFile, xvars>>

\* The heatmap list is done: main starts fs.writeFile("heatmap.json") and
\* waits.
HeatmapFetched ==
  /\ mpc = "heatmap" /\ bpc = "returned"
  /\ mpc' = "writeHeatmap"
  /\ bpc' = "idle"
  /\ UNCHANGED <<now, pendingReads, priorTapeMap, priorHeatmapMap, results, tapeFile, heatmapFile,
                 exitCode, writes, list, bi, bk, out, pauseMs, nGap, nPause, rvars, ovars, xvars>>

\* The write of heatmap.json settles, then the exit code is decided from
\* results.
HeatmapWritten(wrote) ==
  /\ mpc = "writeHeatmap"
  /\ mpc' = "exited"
  /\ IF wrote
       THEN /\ heatmapFile' = WrittenFile(out)
            /\ writes' = Append(writes, HEATMAP_PATH)
            /\ exitCode' = ExitCodeAfterRun(results, out)
       ELSE /\ exitCode' = 1
            /\ UNCHANGED <<heatmapFile, writes>>
  /\ UNCHANGED <<now, pendingReads, priorTapeMap, priorHeatmapMap, results, tapeFile, rvars, ovars,
                 bvars, xvars>>

(***************************************************************************)
(* Fixtures: watch lists, texts, prior files                               *)
(***************************************************************************)
Watch(sym, name) == [sym |-> sym, name |-> name, group |-> JNull]
Grouped(sym, name, group) == [sym |-> sym, name |-> name, group |-> JStr(group)]

\* The head of WATCH and of HEATMAP (w.group ?? null already applied).
WATCH ==
  <<Watch("2yusy.b", "US 2Y Yield"), Watch("5yusy.b", "US 5Y Yield"),
    Watch("10yusy.b", "US 10Y Yield"), Watch("30yusy.b", "US 30Y Yield")>>
HEATMAP ==
  <<Grouped("spy.us", "S&P 500", "Index"), Grouped("qqq.us", "Nasdaq 100", "Index"),
    Grouped("iwm.us", "Russell 2000", "Index"), Grouped("dia.us", "Dow 30", "Index"),
    Grouped("^hsi", "Hong Kong HSI", "Index"), Grouped("^nkx", "Japan Nikkei", "Index"),
    Grouped("^snx", "Sensex India", "Index"), Grouped("^dax", "DAX Germany", "Index"),
    Grouped("^ukx", "FTSE 100 UK", "Index"), Grouped("aapl.us", "Apple", "Mega"),
    Grouped("msft.us", "Microsoft", "Mega"), Grouped("nvda.us", "Nvidia", "Mega"),
    Grouped("amzn.us", "Amazon", "Mega")>>

D1 == "2024-01-01"
D2 == "2024-01-02"
D3 == "2024-01-03"

HeaderRow == <<"Date", "Open", "High", "Low", "Close", "Volume">>
Row(date, close) == <<date, "100", "110", "50", close, "20">>
QuoteHeader == <<"Symbol", "Date", "Time", "Close">>
QuoteRow(date, close) == <<"SYM", date, "22:00:00", close>>

EmptyText == << >>
HeaderOnlyCsv == <<HeaderRow>>
NoDataText == <<<<"No data">>>>
TwoRowCsv == <<HeaderRow, Row(D1, "100"), Row(D2, "110")>>
OneRowCsv == <<HeaderRow, Row(D2, "110")>>
NoCloseCsv == <<HeaderRow, Row(D2, "N/D")>>

\* Texts with white space at their ends: a last or first line of one space,
\* and CRLF line ends.
SpaceLine == <<" ">>
CrLfRow(date, close) == <<date, "100", "110", "50", close, "20\r">>
CrLfCsv ==
  <<<<"Date", "Open", "High", "Low", "Close", "Volume\r">>, CrLfRow(D1, "100"), CrLfRow(D2, "110"),
    <<"\r">>, EmptyLine>>

DailyTexts ==
  {EmptyText, HeaderOnlyCsv, NoDataText, TwoRowCsv, OneRowCsv,
   NoCloseCsv,
   TwoRowCsv \o <<SpaceLine>>, <<SpaceLine>> \o OneRowCsv, <<HeaderRow, SpaceLine>>, CrLfCsv,
   <<HeaderRow, Row(D1, "N/D"), Row(D2, "110")>>,
   <<HeaderRow, Row(D1, "0"), Row(D2, "110")>>,
   <<HeaderRow, Row(D1, ""), Row(D2, "101.5")>>,
   <<HeaderRow, Row(D1, "100"), <<D2, "100", "110">>>>,
   <<HeaderRow, Row(D1, "50"), EmptyLine, Row(D2, "100"), EmptyLine>>,
   <<HeaderRow, Row(D1, "50"), Row(D2, "101.5"), Row(D3, "0")>>}

GoodQuote == <<QuoteHeader, QuoteRow(D3, "101.5")>>
QuoteTexts ==
  {GoodQuote, <<QuoteHeader, QuoteRow(D2, "100")>>, <<QuoteHeader>>, EmptyText,
   <<QuoteHeader, QuoteRow("N/D", "N/D")>>, <<QuoteHeader, <<"SYM", D2>>>>}

\* Items a prior run can have left in the file for a symbol.
PriorOk(sym, date, close, prevDate, prevClose, deltaPct) ==
  [sym |-> sym, name |-> "", group |-> JNull, ok |-> TRUE, date |-> date, close |-> close,
   prevDate |-> prevDate, prevClose |-> prevClose, deltaPct |-> deltaPct, error |-> NoErr]
PriorStub(sym) == ErrorStub(Watch(sym, ""), HttpError(DailyLabel(sym), 404))

PriorItems(sym) ==
  {PriorStub(sym)}
    \cup {PriorOk(sym, JStr(d), c, JNull, JNull, JInt(0)) :
            d \in {D1, D2, D3}, c \in {JInt(50), JInt(0)}}
    \cup {PriorOk(sym, JStr(d), JInt(110), JStr(D1), pc, PctChange(JInt(110), pc)) :
            d \in {D2, D3}, pc \in {JInt(100), JNum(203, 2)}}
    \cup {PriorOk(sym, JStr(D3), JInt(110), JNull, JInt(50), JInt(120))}
    \cup {PriorOk(sym, JStr(D3), JInt(0), JStr(D2), JInt(100), JInt(-100))}

IdleRetry ==
  /\ rpc = "idle"
  /\ label = NoLabel
  /\ attempt = 0
  /\ lastErr = NoErr
  /\ res = NoRes
  /\ bodyRes = NoRead
  /\ waitMs = 0
  /\ rret = NoBody
  /\ rthrown = NoErr
  /\ history = << >>
  /\ nFetch = 0
  /\ nSleep = 0
  /\ inFlight = 0

IdleOne ==
  /\ opc = "idle"
  /\ w = Watch("", "")
  /\ fallbackMap = << >>
  /\ nLines = 0
  /\ cur = FreshLocals
  /\ item = NoItem
  /\ nQuote = 0

IdleBatch ==
  /\ bpc = "idle"
  /\ list = << >>
  /\ bi = 0
  /\ bk = 0
  /\ out = << >>
  /\ pauseMs = 0
  /\ nGap = 0
  /\ nPause = 0

IdleMain ==
  /\ mpc = "idle"
  /\ now = NoTime
  /\ pendingReads = {}
  /\ priorTapeMap = << >>
  /\ priorHeatmapMap = << >>
  /\ results = << >>
  /\ tapeFile = NoFile
  /\ heatmapFile = NoFile
  /\ exitCode = -1
  /\ writes = << >>

(***************************************************************************)
(* The FRED series script: observations, series CSVs, merge                *)
(***************************************************************************)
\* The date strings of the modelled texts in ascending string order; for these
\* ISO dates localeCompare and <= agree with it.
DateOrder ==
  <<"1970-01-01", "2019-01-01", "2020-01-01", "2020-06-01", "2021-01-01", "2021-06-01",
    "2024-01-01", "2024-01-02", "2024-01-03", "2024-02-01", "2024-03-01">>

DateIndex(str) == CHOOSE i \in 1..Len(DateOrder) : DateOrder[i] = str

\* a.localeCompare(b)
LocaleCompare(a, b) ==
  IF a = b THEN 0 ELSE IF DateIndex(a) < DateIndex(b) THEN -1 ELSE 1

\* a < b on strings
StrLess(a, b) == DateIndex(a) < DateIndex(b)

\* a <= b on strings
StrLeq(a, b) == a = b \/ DateIndex(a) < DateIndex(b)

\* What the observations request produced: no response (fetch rejected,
\* status 0), a failure status, a body that is not JSON, the JSON document
\* null, or another JSON document with or without an observations array.
FredResponse(ok, status, isJson, isNull, isArray, obs) ==
  [ok |-> ok, status |-> status, isJson |-> isJson, isNull |-> isNull,
   isArray |-> isArray, observations |-> obs]
FredUnreachable == FredResponse(FALSE, 0, FALSE, FALSE, FALSE, << >>)
FredFailure(status) == FredResponse(FALSE, status, FALSE, FALSE, FALSE, << >>)
FredNotJson == FredResponse(TRUE, 200, FALSE, FALSE, FALSE, << >>)
FredNull == FredResponse(TRUE, 200, TRUE, TRUE, FALSE, << >>)
FredData(obs) == FredResponse(TRUE, 200, TRUE, FALSE, TRUE, obs)
FredNoArray == FredResponse(TRUE, 200, TRUE, FALSE, FALSE, << >>)
\* No request is waiting for its body.
NoFredResponse == FredResponse(FALSE, -1, FALSE, FALSE, FALSE, << >>)
RawObs(date, value) == [date |-> date, value |-> value]
Obs(date, value) == [date |-> date, value |-> value]

\* fetchObservations after a successful response: the usable observations.
UsableObs(o) == o.date.t = "string" /\ o.value.t = "string" /\ o.value.s # "."

RECURSIVE FilterObs(_)
FilterObs(raw) ==
  IF raw = << >> THEN << >>
  ELSE LET o == Head(raw)
           rest == FilterObs(Tail(raw))
       IN IF UsableObs(o) THEN <<Obs(o.date.s, o.value.s)>> \o rest ELSE rest

FetchObservations(resp) == IF resp.isArray THEN FilterObs(resp.observations) ELSE << >>

\* A Map: its entries [k, v] in insertion order, keys unique.
Entry(k, v) == [k |-> k, v |-> v]
EntriesHas(m, k) == \E i \in 1..Len(m) : m[i].k = k
EntriesGet(m, k) ==
  IF EntriesHas(m, k) THEN JStr(m[CHOOSE i \in 1..Len(m) : m[i].k = k].v) ELSE JUndefined
EntriesSet(m, k, v) ==
  IF EntriesHas(m, k)
    THEN [i \in 1..Len(m) |-> IF m[i].k = k THEN Entry(k, v) ELSE m[i]]
    ELSE Append(m, Entry(k, v))

CsvHeader == <<"date", "value">>

\* parseCsvToMap: the first line is skipped, a row without a date is dropped,
\* a later row of a date overwrites an earlier one.
RECURSIVE ParseRowsToMap(_, _, _)
ParseRowsToMap(lines, i, m) ==
  IF i > Len(lines) THEN m
  ELSE LET date == lines[i][1]
           value == IF Len(lines[i]) >= 2 THEN lines[i][2] ELSE ""
       IN ParseRowsToMap(lines, i + 1,
            IF date # "" THEN EntriesSet(m, Trim(date), Trim(value)) ELSE m)

ParseCsvToMap(text) ==
  LET lines == NonEmptyLines(text)
  IN IF Len(lines) <= 1 THEN << >> ELSE ParseRowsToMap(lines, 2, << >>)

AppendEntry(sorted, e) == Append(sorted, e)

\* [...map.entries()].sort((a, b) => a[0].localeCompare(b[0])): a stable sort,
\* here by insertion after the last entry that does not compare greater.
InsertEntry(sorted, e) ==
  LET notAfter == {i \in 1..Len(sorted) : LocaleCompare(sorted[i].k, e.k) <= 0}
      n == IF notAfter = {} THEN 0 ELSE CHOOSE i \in notAfter : \A j \in notAfter : j <= i
  IN SubSeq(sorted, 1, n) \o <<e>> \o SubSeq(sorted, n + 1, Len(sorted))

RECURSIVE SortEntries(_)
SortEntries(m) ==
  IF m = << >> THEN << >>
  ELSE InsertEntry(SortEntries(SubSeq(m, 1, Len(m) - 1)), m[Len(m)])

\* mapToCsv: header, the rows sorted by date joined by "\n", a final "\n".
MapToCsv(m) ==
  LET rows == SortEntries(m)
      body == IF rows = << >> THEN <<EmptyLine>>
              ELSE [i \in 1..Len(rows) |-> <<rows[i].k, rows[i].v>>]
  IN <<CsvHeader>> \o body \o <<EmptyLine>>

ValueAbsent(prev, value) == prev = JUndefined

\* Whether main's loop writes the observation into the map.
ValueDiffers(prev, value) == prev # JStr(value)

\* main's merge loop over the observations: the map and the changed counter.
RECURSIVE MergeFrom(_, _, _, _)
MergeFrom(m, observations, i, changed) ==
  IF i > Len(observations) THEN [map |-> m, changed |-> changed]
  ELSE LET o == observations[i]
       IN IF ValueDiffers(EntriesGet(m, o.date), o.value)
            THEN MergeFrom(EntriesSet(m, o.date, o.value), observations, i + 1, changed + 1)
            ELSE MergeFrom(m, observations, i + 1, changed)

Merge(m, observations) == MergeFrom(m, observations, 1, 0)

\* readIfExists: the text of the file, "" when it cannot be read.
NoDataFile == [exists |-> FALSE, text |-> << >>]
DataFile(text) == [exists |-> TRUE, text |-> text]
ReadIfExists(f) == IF f.exists THEN f.text ELSE << >>

\* readSeriesCsv: the rows with a date and a finite value, sorted by date.
Point(date, value) == [date |-> date, value |-> value]

RECURSIVE ReadPoints(_, _)
ReadPoints(lines, i) ==
  IF i > Len(lines) THEN << >>
  ELSE LET date == Trim(lines[i][1])
           value == NumberOfString(Trim(IF Len(lines[i]) >= 2 THEN lines[i][2] ELSE ""))
           rest == ReadPoints(lines, i + 1)
       IN IF date = "" \/ ~IsFinite(value) THEN rest ELSE <<Point(date, value)>> \o rest

InsertPoint(sorted, e) ==
  LET notAfter == {i \in 1..Len(sorted) : LocaleCompare(sorted[i].date, e.date) <= 0}
      n == IF notAfter = {} THEN 0 ELSE CHOOSE i \in notAfter : \A j \in notAfter : j <= i
  IN SubSeq(sorted, 1, n) \o <<e>> \o SubSeq(sorted, n + 1, Len(sorted))

RECURSIVE SortPoints(_)
SortPoints(s) ==
  IF s = << >> THEN << >>
  ELSE InsertPoint(SortPoints(SubSeq(s, 1, Len(s) - 1)), s[Len(s)])

ReadSeriesCsv(f) ==
  LET lines == NonEmptyLines(ReadIfExists(f))
  IN IF Len(lines) <= 1 THEN << >> ELSE SortPoints(ReadPoints(lines, 2))

\* asOf's binary search; lo, hi and mid are the code's 0-based indexes.
RECURSIVE AsOfLoop(_, _, _, _, _)
AsOfLoop(series, targetDate, lo, hi, best) ==
  IF ~(lo <= hi) THEN best
  ELSE LET mid == (lo + hi) \div 2
           d == series[mid + 1].date
       IN IF StrLeq(d, targetDate)
            THEN AsOfLoop(series, targetDate, mid + 1, hi, series[mid + 1].value)
            ELSE AsOfLoop(series, targetDate, lo, mid - 1, best)

AsOf(series, targetDate) == AsOfLoop(series, targetDate, 0, Len(series) - 1, JNull)

\* h / inc.value for finite h and finite non-zero inc.value
Divide(a, b) == JNum(a.n * b.d, a.d * b.n)

\* String(ratio), for the ratios of the modelled values.
StringOfNumber(v) ==
  CASE v = JInt(0) -> "0"
    [] v = JInt(1) -> "1"
    [] v = JInt(2) -> "2"
    [] v = JNum(5, 2) -> "2.5"
    [] v = JNum(1, 2) -> "0.5"
    [] v = JNum(2, 5) -> "0.4"
    [] v = JNum(4, 5) -> "0.8"
    [] v = JNum(5, 4) -> "1.25"

\* !Number.isFinite(inc.value) || inc.value === 0
SkipsOnIncome(inc, h) == ~IsFinite(inc.value) \/ IsZero(inc.value)

\* !Number.isFinite(inc.value) || !Number.isFinite(h) || inc.value === 0
SkipsRatio(inc, h) == ~IsFinite(inc.value) \/ ~IsFinite(h) \/ IsZero(inc.value)

\* The derived block's loop over the income points.
RECURSIVE RatioMap(_, _, _, _)
RatioMap(income, house, i, m) ==
  IF i > Len(income) THEN m
  ELSE LET inc == income[i]
           h == AsOf(house, inc.date)
       IN IF SkipsRatio(inc, h)
            THEN RatioMap(income, house, i + 1, m)
            ELSE RatioMap(income, house, i + 1,
                          EntriesSet(m, inc.date, StringOfNumber(Divide(h, inc.value))))

INCOME_ID == "MEHOINUSA646N"
HOUSE_ID == "MSPUS"
RATIO_FILE == "HOUSE_TO_INCOME_RATIO"

\* SERIES (ids): 41 entries, the last five naming the income series of entry
\* 5 again.
SERIES ==
  <<"CPIAUCSL", "UNRATE", "GDPC1", "MSPUS", "MEHOINUSA646N",
    "APU0000708111", "APU000072610", "APU0000709112", "APU000074714", "APU0000717311",
    "APU0000FN1101", "APU0000718311", "CUSR0000SAH3", "CUSR0000SAD", "CUSR0000SAF113",
    "LNS11300060", "PAYEMS", "CES1021210001", "USMINE", "USCONS",
    "MANEMP", "CES3133600101", "CES4348400001", "USINFO", "USFIRE",
    "CES6562000101", "CES9091000001", "USGOVT", "TLMFGCONS", "A939RX0Q048SBEA",
    "BOPGSTB", "GFDEBTN", "GFDEGDQ188S", "FYFSD", "FEDFUNDS",
    "MORTGAGE30US", "MEHOINUSA646N", "MEHOINUSA646N", "MEHOINUSA646N", "MEHOINUSA646N",
    "MEHOINUSA646N">>

BackfillStart(f) ==
  IF ParseCsvToMap(ReadIfExists(f)) # << >> THEN "2019-01-01" ELSE "1970-01-01"

\* The observation_start main asks for, whatever the series file holds.
ObservationStart(f) == "1970-01-01"

\* What one pass of main's loop logged and wrote.
MergeRecord(run, id, start, observations, changed, before, after) ==
  [run |-> run, id |-> id, start |-> start, observations |-> observations,
   changed |-> changed, before |-> before, after |-> after]

\* apiKey === null
KeyIsNull(key) == key = JNull

\* !apiKey
KeyMissing(key) == ~Truthy(key)

\* path.join(DATA_DIR, `${s.id}.csv`): the series' own file.
FilePathOf(id) == id

\* The errors the catch of main can be handed.
MissingKey == "Missing FRED_API_KEY env var"
MkdirError == "mkdir"
FetchError == "fetch failed"
HttpStatusError == "HTTP"
JsonError == "json"
NullError == "Cannot read properties of null (reading 'observations')"
WriteError == "writeFile"

\* main().catch: console.error(e), process.exit(1).
FredFail(e) ==
  /\ fpc' = "exited"
  /\ fexit' = 1
  /\ ferr' = e

\* main up to its first await: the API key test, then ensureDir calls
\* fs.mkdir.
FredMainStart ==
  /\ fpc = "start"
  /\ IF KeyMissing(apiKey)
       THEN FredFail(MissingKey)
       ELSE /\ fpc' = "mkdir"
            /\ UNCHANGED <<fexit, ferr>>
  /\ filesAtStart' = dataFiles
  /\ UNCHANGED <<apiKey, dirExists, si, dataFiles, flog, frun, flocals, tvars, pvars, avars, nvars>>

\* The next thing main waits for at position k of the loop: the fetch of
\* series k, or the income file once the loop is over.
FredLoopAt(series, k) == IF k > Len(series) THEN "readIncome" ELSE "fetch"

\* fs.mkdir settles.  Made: the loop starts and fetchObservations issues its
\* fetch (the derived block starts when SERIES is empty); rejected: main
\* rejects.
FredDirMade(series, made) ==
  /\ fpc = "mkdir"
  /\ IF made
       THEN /\ dirExists' = TRUE
            /\ si' = 1
            /\ fpc' = FredLoopAt(series, 1)
            /\ UNCHANGED <<fexit, ferr>>
       ELSE /\ FredFail(MkdirError)
            /\ UNCHANGED <<dirExists, si>>
  /\ UNCHANGED <<apiKey, dataFiles, flog, frun, filesAtStart, flocals, tvars, pvars, avars, nvars>>

\* The fetch of fetchObservations settles: rejected or not ok, the call
\* throws; ok, it calls res.json().
FredFetched(resp) ==
  /\ fpc = "fetch"
  /\ IF resp.status = 0 THEN FredFail(FetchError) /\ UNCHANGED fres
     ELSE IF ~resp.ok THEN FredFail(HttpStatusError) /\ UNCHANGED fres
     ELSE /\ fres' = resp
          /\ fpc' = "json"
          /\ UNCHANGED <<fexit, ferr>>
  /\ UNCHANGED <<apiKey, dirExists, si, dataFiles, flog, frun, filesAtStart,
                 fObs, fBefore, fAfter, fChanged, fIncome, tvars, pvars, avars, nvars>>

\* res.json() settles.  Rejected, main rejects; resolved with null,
\* data.observations throws; otherwise fetchObservations returns the usable
\* observations and main calls readIfExists on the series' file.
FredJsonRead ==
  /\ fpc = "json"
  /\ IF ~fres.isJson
       THEN FredFail(JsonError) /\ UNCHANGED fObs
     ELSE IF fres.isNull
       THEN FredFail(NullError) /\ UNCHANGED fObs
       ELSE /\ fObs' = FetchObservations(fres)
            /\ fpc' = "read"
            /\ UNCHANGED <<fexit, ferr>>
  /\ fres' = NoFredResponse
  /\ UNCHANGED <<apiKey, dirExists, si, dataFiles, flog, frun, filesAtStart,
                 fBefore, fAfter, fChanged, fIncome, tvars, pvars, avars, nvars>>

\* The fs.readFile of readIfExists settles: main parses the file, merges the
\* observations into the table and calls fs.writeFile.
FredFileRead(series) ==
  /\ fpc = "read"
  /\ LET before == dataFiles[FilePathOf(series[si])]
         merged == Merge(ParseCsvToMap(ReadIfExists(before)), fObs)
     IN /\ fBefore' = before
        /\ fAfter' = DataFile(MapToCsv(merged.map))
        /\ fChanged' = merged.changed
  /\ fpc' = "write"
  /\ UNCHANGED <<apiKey, dirExists, si, dataFiles, flog, fexit, frun, filesAtStart,
                 fres, fObs, fIncome, ferr, tvars, pvars, avars, nvars>>

\* The fs.writeFile of the loop settles.  Written: main logs the pass and goes
\* on to the next series or to the derived block; rejected: main rejects and
\* the file is as it was.
FredFileWritten(series, wrote) ==
  /\ fpc = "write"
  /\ LET id == series[si]
     IN IF wrote
          THEN /\ dataFiles' = [dataFiles EXCEPT ![FilePathOf(id)] = fAfter]
               /\ flog' = Append(flog, MergeRecord(frun, id, ObservationStart(fBefore),
                                                   fObs, fChanged, fBefore, fAfter))
               /\ si' = si + 1
               /\ fpc' = FredLoopAt(series, si + 1)
               /\ UNCHANGED <<fexit, ferr>>
          ELSE /\ FredFail(WriteError)
               /\ UNCHANGED <<si, dataFiles, flog>>
  /\ UNCHANGED <<apiKey, dirExists, frun, filesAtStart, flocals, tvars, pvars, avars, nvars>>

\* The derived block: readSeriesCsv(incomePath) settles.
FredIncomeRead ==
  /\ fpc = "readIncome"
  /\ fIncome' = ReadSeriesCsv(dataFiles[INCOME_ID])
  /\ fpc' = "readHouse"
  /\ UNCHANGED <<apiKey, dirExists, si, dataFiles, flog, fexit, frun, filesAtStart,
                 fres, fObs, fBefore, fAfter, fChanged, ferr, tvars, pvars, avars, nvars>>

\* readSeriesCsv(housePath) settles: the ratio is skipped and main ends, or
\* the ratio table is built and handed to fs.writeFile.
FredHouseRead ==
  /\ fpc = "readHouse"
  /\ LET house == ReadSeriesCsv(dataFiles[HOUSE_ID])
     IN IF fIncome = << >> \/ house = << >>
          THEN /\ fpc' = "exited"
               /\ fexit' = 0
               /\ UNCHANGED fAfter
          ELSE /\ fAfter' = DataFile(MapToCsv(RatioMap(fIncome, house, 1, << >>)))
               /\ fpc' = "writeRatio"
               /\ UNCHANGED fexit
  /\ UNCHANGED <<apiKey, dirExists, si, dataFiles, flog, frun, filesAtStart,
                 fres, fObs, fBefore, fChanged, fIncome, ferr, tvars, pvars, avars, nvars>>

\* The fs.writeFile of the ratio file settles: main ends, or rejects with the
\* ratio file as it was.
FredRatioWritten(wrote) ==
  /\ fpc = "writeRatio"
  /\ IF wrote
       THEN /\ dataFiles' = [dataFiles EXCEPT ![RATIO_FILE] = fAfter]
            /\ fpc' = "exited"
            /\ fexit' = 0
            /\ UNCHANGED ferr
       ELSE /\ FredFail(WriteError)
            /\ UNCHANGED dataFiles
  /\ UNCHANGED <<apiKey, dirExists, si, flog, frun, filesAtStart, flocals, tvars, pvars, avars, nvars>>

NoLocals ==
  /\ fres = NoFredResponse
  /\ fObs = << >>
  /\ fBefore = NoDataFile
  /\ fAfter = NoDataFile
  /\ fChanged = 0
  /\ fIncome = << >>

\* The next scheduled run of the script, on the files the last one left.
FredRunAgain(maxRuns) ==
  /\ fpc = "exited"
  /\ frun < maxRuns
  /\ frun' = frun + 1
  /\ fpc' = "start"
  /\ fexit' = -1
  /\ ferr' = ""
  /\ si' = 0
  /\ fres' = NoFredResponse
  /\ fObs' = << >>
  /\ fBefore' = NoDataFile
  /\ fAfter' = NoDataFile
  /\ fChanged' = 0
  /\ fIncome' = << >>
  /\ UNCHANGED <<apiKey, dirExists, dataFiles, flog, filesAtStart, tvars, pvars, avars, nvars>>

IdleFredRun ==
  /\ fpc = "idle"
  /\ apiKey = JUndefined
  /\ si = 0
  /\ dataFiles = << >>
  /\ filesAtStart = << >>
  /\ flog = << >>
  /\ fexit = -1
  /\ ferr = ""
  /\ frun = 0
  /\ NoLocals

IdleFred == IdleFredRun /\ dirExists = FALSE

IdleAsOf ==
  /\ apc = "idle"
  /\ aseries = << >>
  /\ atarget = ""
  /\ abest = JNull

NoNewsFile == [exists |-> FALSE, source |-> "", items |-> << >>]

IdleNews ==
  /\ npc = "idle"
  /\ xml = << >>
  /\ nitems = << >>
  /\ newsFile = NoNewsFile
  /\ nexit = -1

(***************************************************************************)
(* A direct call of parseLastCloseMaybePrev                                *)
(***************************************************************************)
NoParse ==
  [threw |-> FALSE, err |-> NoErr, date |-> JUndefined, close |-> JUndefined,
   prevDate |-> JUndefined, prevClose |-> JUndefined]

IdleParse ==
  /\ ppc = "idle"
  /\ pcsv = EmptyText
  /\ pret = NoParse

\* parseLastCloseMaybePrev(csv)
CallParseLastCloseMaybePrev ==
  /\ ppc = "call"
  /\ pret' = ParseLastCloseMaybePrev(pcsv)
  /\ ppc' = "done"
  /\ UNCHANGED <<pcsv, tvars, fvars, avars, nvars>>

\* Nothing outside the tape run is running.
IdleOther == IdleParse /\ IdleFred /\ IdleAsOf /\ IdleNews

(***************************************************************************)
(* SpecRetry: one call of fetchTextWithRetry against a server that may     *)
(* answer anything.                                                        *)
(***************************************************************************)
Statuses == {200, 404, 429, 500, 502, 503, 504}
RetryAfterHeaders ==
  {JNull, JStr(""), JStr("abc"), JStr("-1"), JStr("0"), JStr("2"), JStr("20"), JStr("0.0015")}
NetFailures == {"ECONNRESET", "ETIMEDOUT"}

RetryResponses ==
  {Response(200, JNull, b) : b \in {TwoRowCsv, HeaderOnlyCsv}}
    \cup {Response(st, ra, NoBody) : st \in Statuses \ {200}, ra \in RetryAfterHeaders}
    \cup {Exception(e) : e \in NetFailures}

InitRetry ==
  /\ rpc = "fetch"
  /\ label = DailyLabel("usdeur")
  /\ attempt = 0
  /\ lastErr = NoErr
  /\ res = NoRes
  /\ bodyRes = NoRead
  /\ waitMs = 0
  /\ rret = NoBody
  /\ rthrown = NoErr
  /\ history = << >>
  /\ nFetch = 0
  /\ nSleep = 0
  /\ inFlight = 1
  /\ IdleOne /\ IdleBatch /\ IdleMain /\ IdleOther

\* What reading a body may give: the text, or the connection ending early.
BodyReads == {Resolved, Rejected("terminated")}

RetryAttempt == \E r \in RetryResponses, u \in RandomDraws : Attempt(r, u)
RetryReadBody == \E o \in BodyReads, u \in RandomDraws : ReadBody(o, u)

NextRetry == RetryAttempt \/ RetryReadBody \/ Wake

SpecRetry == InitRetry /\ [][NextRetry]_vars

(***************************************************************************)
(* SpecOne: one call of fetchOne for one watch item, over every daily and  *)
(* quote text above and every prior record of the item.                    *)
(***************************************************************************)
OneItem == Grouped("spy.us", "S&P 500", "Index")

OnePriorFiles == {NoFile} \cup {FileOf(<<it>>) : it \in PriorItems(OneItem.sym)}

OneFailures == {Response(404, JNull, NoBody), Response(503, JNull, NoBody), Exception("ECONNRESET")}

OneResponses(lbl) ==
  OneFailures
    \cup {Response(200, JNull, t) : t \in IF lbl.ep = "Quote" THEN QuoteTexts ELSE DailyTexts}

InitOne ==
  /\ \E f \in OnePriorFiles : fallbackMap = ReadExistingItemsMap(f)
  /\ opc = "daily"
  /\ w = OneItem
  /\ nLines = -1
  /\ cur = FreshLocals
  /\ item = NoItem
  /\ nQuote = 0
  /\ rpc = "fetch"
  /\ label = DailyLabel(OneItem.sym)
  /\ attempt = 0
  /\ lastErr = NoErr
  /\ res = NoRes
  /\ bodyRes = NoRead
  /\ waitMs = 0
  /\ rret = NoBody
  /\ rthrown = NoErr
  /\ history = << >>
  /\ nFetch = 0
  /\ nSleep = 0
  /\ inFlight = 1
  /\ IdleBatch /\ IdleMain /\ IdleOther

OneAttempt == \E r \in OneResponses(label) : Attempt(r, 0)
OneReadBody == \E o \in BodyReads : ReadBody(o, 0)

NextOne ==
  \/ OneAttempt
  \/ OneReadBody
  \/ Wake
  \/ DailyReturned
  \/ FetchThrew
  \/ QuoteReturned
  \/ HeaderOnlyQuoteReturned

SpecOne == InitOne /\ [][NextOne]_vars

(***************************************************************************)
(* Spec: one run of main.  The lists are the first TapeLen items of WATCH  *)
(* and the first HeatmapLen items of HEATMAP; the server may fail the      *)
(* symbols of Flaky and serves every other symbol a two-row CSV.           *)
(***************************************************************************)
TapeLen == 2
HeatmapLen == 11

RunWatch == SubSeq(WATCH, 1, TapeLen)
RunHeatmap == SubSeq(HEATMAP, 1, HeatmapLen)

Flaky == {"2yusy.b", "5yusy.b", "spy.us", "msft.us"}

\* The requests the server may also answer with the retryable status 503.
Busy == {DailyLabel("5yusy.b"), QuoteLabel("spy.us")}

RunResponses(lbl) ==
  IF lbl.sym \notin Flaky
    THEN {Response(200, JNull, TwoRowCsv)}
    ELSE (IF lbl.ep = "Quote"
            THEN {Response(200, JNull, GoodQuote), Response(404, JNull, NoBody)}
            ELSE {Response(200, JNull, TwoRowCsv), Response(200, JNull, HeaderOnlyCsv),
                  Response(200, JNull, NoCloseCsv), Response(404, JNull, NoBody)})
         \cup (IF lbl \in Busy THEN {Response(503, JNull, NoBody)} ELSE {})

\* A prior file is missing or holds what an earlier run wrote.
RunPriorTapeFiles ==
  {NoFile,
   FileOf(<<PriorOk("2yusy.b", JStr(D1), JInt(50), JStr("2023-12-29"), JInt(100), JInt(-50)),
            PriorStub("5yusy.b")>>)}
RunPriorHeatmapFiles ==
  {NoFile,
   FileOf(<<PriorOk("spy.us", JStr(D3), JInt(50), JStr(D2), JInt(100), JInt(-50))>>)}

\* The clock at the start of the run: in a window, out of every window, or
\* on a weekend.
RunClocks == {NyTime("Mon", 10 * 60), NyTime("Tue", 12 * 60), NyTime("Sat", 10 * 60)}

Init ==
  /\ mpc = "gate"
  /\ now \in RunClocks
  /\ pendingReads = {}
  /\ priorTapeMap = << >>
  /\ priorHeatmapMap = << >>
  /\ results = << >>
  /\ tapeFile \in RunPriorTapeFiles
  /\ heatmapFile \in RunPriorHeatmapFiles
  /\ exitCode = -1
  /\ writes = << >>
  /\ IdleRetry /\ IdleOne /\ IdleBatch /\ IdleOther

TimeGate ==
  \E hour \in FormattedHours(now.minutes \div 60) :
    ExitUnlessNYTimeMatches(ALLOWED_TIMES, GRACE_MINUTES, hour)
RunPriorFileRead == \E path \in pendingReads : PriorFileRead(path, RunWatch)
RunAttempt == \E r \in RunResponses(label) : Attempt(r, 0)
\* The request whose body may end early.
Cut == DailyLabel("2yusy.b")

RunReadBody == \E o \in (IF label = Cut THEN BodyReads ELSE {Resolved}) : ReadBody(o, 0)
RunItemReturned == \E u \in RandomDraws : ItemReturned(u)
RunGapElapsed == \E u \in RandomDraws : GapElapsed(u)
RunTapeWritten == \E wrote \in BOOLEAN : TapeWritten(RunHeatmap, wrote)
RunHeatmapWritten == \E wrote \in BOOLEAN : HeatmapWritten(wrote)

Next ==
  \/ TimeGate
  \/ MainStart
  \/ RunPriorFileRead
  \/ RunAttempt
  \/ RunReadBody
  \/ Wake
  \/ DailyReturned
  \/ FetchThrew
  \/ QuoteReturned
  \/ HeaderOnlyQuoteReturned
  \/ RunItemReturned
  \/ RunGapElapsed
  \/ PauseElapsed
  \/ TapeFetched
  \/ RunTapeWritten
  \/ HeatmapFetched
  \/ RunHeatmapWritten

Spec == Init /\ [][Next]_vars

(***************************************************************************)
(* SpecLive: the same run against a server that may answer the requests    *)
(* for the first tape symbol with 503 at every attempt and serves a        *)
(* two-row CSV for every other symbol.  Every awaited call settles and     *)
(* every timer fires: the step the run is waiting for is eventually taken. *)
(***************************************************************************)
LiveResponses(lbl) ==
  IF lbl = DailyLabel("2yusy.b")
    THEN {Response(200, JNull, TwoRowCsv), Response(200, JNull, HeaderOnlyCsv),
          Response(503, JNull, NoBody), Exception("ECONNRESET")}
    ELSE IF lbl = QuoteLabel("2yusy.b")
      THEN {Response(200, JNull, GoodQuote), Response(503, JNull, NoBody)}
      ELSE {Response(200, JNull, TwoRowCsv)}

LiveAttempt == \E r \in LiveResponses(label) : Attempt(r, 0)
LiveReadBody ==
  \E o \in (IF label = DailyLabel("2yusy.b") THEN BodyReads ELSE {Resolved}) : ReadBody(o, 0)

\* Every step of the run but the one that reads the daily CSV.
LiveSteps ==
  \/ TimeGate
  \/ MainStart
  \/ RunPriorFileRead
  \/ LiveAttempt
  \/ LiveReadBody
  \/ Wake
  \/ FetchThrew
  \/ QuoteReturned
  \/ HeaderOnlyQuoteReturned
  \/ RunItemReturned
  \/ RunGapElapsed
  \/ PauseElapsed
  \/ TapeFetched
  \/ RunTapeWritten
  \/ HeatmapFetched
  \/ RunHeatmapWritten

NextLive == LiveSteps \/ DailyReturned

\* fetchStooqDailyCsv has returned and fetchOne has not resumed yet: the
\* states where DailyReturned is enabled.
DailyPending == opc = "daily" /\ rpc = "returned"

\* Weak fairness of every step.  For DailyReturned it is written out,
\* WF_vars(A) being []<>~ENABLED <<A>>_vars \/ []<><<A>>_vars, with the
\* action's guard DailyPending as its enabling condition.
SpecLive ==
  /\ Init /\ [][NextLive]_vars
  /\ WF_vars(LiveSteps)
  /\ ([]<>~DailyPending \/ []<><<DailyReturned>>_vars)

(***************************************************************************)
(* SpecParse: one direct call of parseLastCloseMaybePrev on every text of  *)
(* up to MaxLines lines.                                                   *)
(***************************************************************************)
MaxLines == 4

ParseLines ==
  {EmptyLine, SpaceLine, HeaderRow, Row(D1, "100"), Row(D2, "N/D"), Row(D3, "0"), <<D2, "100">>}

ParseTexts == UNION {[1..n -> ParseLines] : n \in 0..MaxLines}

InitParse ==
  /\ ppc = "call"
  /\ pcsv \in ParseTexts
  /\ pret = NoParse
  /\ IdleRetry /\ IdleOne /\ IdleBatch /\ IdleMain
  /\ IdleFred /\ IdleAsOf /\ IdleNews

NextParse == CallParseLastCloseMaybePrev

SpecParse == InitParse /\ [][NextParse]_vars

(***************************************************************************)
(* SpecFred: up to MaxRuns runs of the FRED script over the first          *)
(* SeriesLen entries of SERIES followed by its last entry, which names the *)
(* income series of entry 5 again.  MSPUS is answered by any of the        *)
(* responses below, UNRATE may fail (no answer, a failure status, a body   *)
(* that is not JSON), CPIAUCSL and MSPUS may be answered with the document *)
(* null, the income series gets three observations, one of them zero, and  *)
(* its request at the last entry may fail; the other series always get the *)
(* same two observations.  fs.mkdir and the write of the ratio file may be *)
(* rejected in every run, the write of a series file for the series of     *)
(* Guarded.                                                                *)
(***************************************************************************)
SeriesLen == 5
MaxRuns == 2

RunSeries == Append(SubSeq(SERIES, 1, SeriesLen), SERIES[Len(SERIES)])

F1 == "2024-01-01"
F2 == "2024-02-01"
F3 == "2024-03-01"

Raw(date, value) == RawObs(JStr(date), JStr(value))

SteadyObservations == <<Raw(F1, "2.0"), Raw(F3, "2.5")>>
ZeroIncomeObservations == <<Raw(F1, "2.5"), Raw(F2, "0"), Raw(F3, "2.0")>>

FetchedLists ==
  {<< >>,
   <<Raw(F1, "1.0"), Raw(F2, "2.0"), Raw(F2, "2.5")>>,
   <<Raw(F1, "1.0"), Raw(F2, "2.0")>>,
   <<Raw(F2, "2.5"), Raw(F1, "1.0")>>,
   <<Raw(F2, "2.5"), Raw(F2, "2.0")>>,
   <<Raw(F1, "."), Raw(F3, "2.0")>>,
   <<Raw(F3, "1.0"), RawObs(JNull, JStr("2.0")), Raw(F1, "2.5")>>}

FredResponses(id) ==
  CASE id = HOUSE_ID ->
         {FredData(l) : l \in FetchedLists} \cup {FredNoArray, FredNull, FredFailure(500)}
    [] id = "UNRATE" ->
         {FredData(SteadyObservations), FredFailure(500), FredUnreachable, FredNotJson}
    [] id = "CPIAUCSL" -> {FredData(SteadyObservations), FredNull}
    [] id = INCOME_ID -> {FredData(ZeroIncomeObservations)}
    [] OTHER -> {FredData(SteadyObservations)}

\* The answers to the request of entry k of the run's list.
FredResponsesAt(k) ==
  IF k = Len(RunSeries)
    THEN {FredData(ZeroIncomeObservations), FredFailure(500)}
    ELSE FredResponses(RunSeries[k])

\* A file an earlier run wrote, and one edited by hand: rows out of order, a
\* repeated date, white space, a row without a value and one without a date.
WrittenHouseFile == DataFile(MapToCsv(<<Entry(F1, "1.0"), Entry(F2, "2.0")>>))
EditedHouseFile ==
  DataFile(<<CsvHeader, <<F3, "2.5">>, <<" 2024-02-01", " 1.0">>, EmptyLine,
             <<F3, "2.0 ">>, <<F1>>, <<"", "2.0">>>>)
WrittenIncomeFile == DataFile(MapToCsv(<<Entry(F1, "2.0")>>))

FredFileNames == {RunSeries[i] : i \in 1..Len(RunSeries)} \cup {RATIO_FILE}

\* What a run may find: no file, or a house price file with an income file.
PriorDataFiles ==
  {[name \in FredFileNames |->
      IF name = HOUSE_ID THEN h
      ELSE IF name = INCOME_ID /\ h.exists THEN WrittenIncomeFile
      ELSE NoDataFile] :
     h \in {NoDataFile, WrittenHouseFile, EditedHouseFile}}

InitFred ==
  /\ fpc = "start"
  /\ apiKey \in {JUndefined, JStr(""), JStr("key")}
  /\ dirExists \in BOOLEAN
  /\ si = 0
  /\ dataFiles \in PriorDataFiles
  /\ filesAtStart = dataFiles
  /\ (\E name \in FredFileNames : dataFiles[name].exists) => dirExists
  /\ flog = << >>
  /\ fexit = -1
  /\ ferr = ""
  /\ frun = 1
  /\ NoLocals
  /\ IdleRetry /\ IdleOne /\ IdleBatch /\ IdleMain
  /\ IdleParse /\ IdleAsOf /\ IdleNews

\* How a wait on the file system may end: done or rejected.
Settles == BOOLEAN

RunFredDirMade == \E made \in Settles : FredDirMade(RunSeries, made)
RunFredFetched ==
  /\ fpc = "fetch"
  /\ \E resp \in FredResponsesAt(si) : FredFetched(resp)
RunFredFileRead == FredFileRead(RunSeries)
\* The series whose file is the one a write may be rejected for.
Guarded == {"GDPC1"}
RunFredFileWritten ==
  /\ fpc = "write"
  /\ \E wrote \in (IF RunSeries[si] \in Guarded THEN Settles ELSE {TRUE}) :
       FredFileWritten(RunSeries, wrote)
RunFredRatioWritten == \E wrote \in Settles : FredRatioWritten(wrote)
RunFredRunAgain == FredRunAgain(MaxRuns)

NextFred ==
  \/ FredMainStart
  \/ RunFredDirMade
  \/ RunFredFetched
  \/ FredJsonRead
  \/ RunFredFileRead
  \/ RunFredFileWritten
  \/ FredIncomeRead
  \/ FredHouseRead
  \/ RunFredRatioWritten
  \/ RunFredRunAgain

SpecFred == InitFred /\ [][NextFred]_vars

(***************************************************************************)
(* Claims about fetchTextWithRetry (checked under SpecRetry)               *)
(***************************************************************************)
\* The error the current attempt's outcome stands for.
ErrOfRes ==
  IF res.kind = "exception"
    THEN NetError(res.err)
    ELSE IF bodyRes.kind = "rejected" THEN NetError(bodyRes.err) ELSE HttpError(label, res.status)

\* C1 (as claimed): once an attempt got a status that is neither OK nor one of
\* 429/500/502/503/504, the call has thrown that HTTP error, without a sleep and
\* without any further fetch.
C1_NonRetryableFailsImmediately ==
  (res.kind = "response" /\ ~(res.status \in 200..299)
     /\ res.status \notin {429, 500, 502, 503, 504})
    => (rpc = "threw" /\ rthrown = HttpError(label, res.status))

\* C2 (as claimed): at most RETRY_COUNT + 1 = 5 fetches; nothing is fetched
\* after the first OK response, whose body is what the call returns; every
\* further attempt is preceded by exactly one sleep, so a finished call slept
\* attempts - 1 times.
C2_AttemptBudgetAndSleeps ==
  /\ RETRY_COUNT + 1 = 5
  /\ nFetch = Len(history)
  /\ nFetch <= 5
  /\ \A i \in 1..Len(history) :
       history[i] \in 200..299 => (i = Len(history) /\ rpc \in {"body", "returned"})
  /\ rpc = "returned" =>
       (res.kind = "response" /\ res.status \in 200..299 /\ rret = res.body)
  /\ rpc \in {"body", "returned", "threw"} => nSleep = nFetch - 1
  /\ rpc \in {"fetch", "sleep"} => nSleep = nFetch

\* C2 (amended): at most 5 fetches and attempts - 1 sleeps, as above; the call
\* returns the body of the first OK response whose body could be read, and
\* fetches nothing after it.  An OK response whose body read fails is
\* followed by a sleep and the next attempt, or on the last attempt by the
\* throw.
C2_FirstReadBodyReturned ==
  /\ RETRY_COUNT + 1 = 5
  /\ nFetch = Len(history)
  /\ nFetch <= 5
  /\ rpc = "returned" =>
       /\ res.kind = "response" /\ res.status \in 200..299
       /\ bodyRes = Resolved
       /\ rret = res.body
       /\ history[Len(history)] = res.status
  /\ (rpc \in {"sleep", "threw"} /\ res.kind = "response" /\ res.status \in 200..299) =>
       bodyRes.kind = "rejected"
  /\ rpc = "body" <=> (res.kind = "response" /\ res.status \in 200..299 /\ bodyRes = NoRead)
  /\ rpc \in {"body", "returned", "threw"} => nSleep = nFetch - 1
  /\ rpc \in {"fetch", "sleep"} => nSleep = nFetch

C2_Witness ==
  /\ rpc = "returned" /\ history = <<503, 200, 200>> /\ nSleep = 2 /\ rret = TwoRowCsv
  /\ bodyRes = Resolved

\* C3: a call that throws has used its whole budget and throws the error of its
\* final attempt: five 503s give HTTP 503, and an exception on the final attempt
\* is what surfaces, whatever the earlier attempts got.
C3_LastErrorSurfaces ==
  rpc = "threw" =>
    /\ nFetch = RETRY_COUNT + 1
    /\ res.kind # "none"
    /\ rthrown = ErrOfRes
    /\ history = <<503, 503, 503, 503, 503>> => rthrown = HttpError(label, 503)
    /\ history[Len(history)] = 0 => rthrown.kind = "net"

C3_Witness ==
  /\ rpc = "threw"
  /\ history = <<503, 429, 500, 504, 0>>
  /\ rthrown = NetError("ETIMEDOUT")

\* C4: every wait follows one schedule: after a retryable status with a numeric
\* Retry-After of r >= 0 seconds it is min(BACKOFF_MAX_MS, floor(r * 1000));
\* otherwise it is min(BACKOFF_MAX_MS, BACKOFF_BASE_MS * 2^attempt) plus a jitter
\* in 0..249; no wait exceeds BACKOFF_MAX_MS + 249.
C4_UsableRetryAfter ==
  /\ res.kind = "response"
  /\ res.status \in {429, 500, 502, 503, 504}
  /\ res.ra.t = "string" /\ res.ra.s # ""
  /\ IsFinite(ToNumber(res.ra)) /\ ToNumber(res.ra).n >= 0

C4_WaitSchedule ==
  rpc = "sleep" =>
    /\ IF C4_UsableRetryAfter
         THEN LET r == ToNumber(res.ra)
                  ms == (r.n * 1000) \div r.d
              IN waitMs = IF ms > 15000 THEN 15000 ELSE ms
         ELSE LET e == 800 * (2 ^ attempt)
                  exp == IF e > 15000 THEN 15000 ELSE e
              IN waitMs - exp \in 0..249
    /\ waitMs <= 15000 + 249

C4_Witness ==
  rpc = "sleep" /\ res.status = 429 /\ res.ra = JStr("20") /\ waitMs = BACKOFF_MAX_MS

(***************************************************************************)
(* Claims about fetchInBatches and main (checked under Spec)               *)
(***************************************************************************)
\* An error stub: ok = false with sym, name, group and error and nothing else.
IsErrorStub(it) ==
  /\ ~it.ok
  /\ it.error.kind # "null"
  /\ it.date.t = "undefined" /\ it.close.t = "undefined"
  /\ it.prevDate.t = "undefined" /\ it.prevClose.t = "undefined"
  /\ it.deltaPct.t = "undefined"

\* A fully populated quote: every field present, every number finite.
IsFullyPopulated(it) ==
  /\ it.ok
  /\ it.error.kind = "null"
  /\ it.date.t = "string" /\ IsFinite(it.close)
  /\ it.prevDate.t = "string" /\ IsFinite(it.prevClose)
  /\ IsFinite(it.deltaPct)

FileItems(file) == {file.items[k] : k \in 1..Len(file.items)}

\* C5: fetchInBatches pushes one result per watch item in list order, whatever
\* each item's outcome: a failed item is an ok = false stub with its sym, name
\* and error, the items after it are still fetched, and the returned list is as
\* long as the input.
C5_OneResultPerItemInOrder ==
  /\ Len(out) <= Len(list)
  /\ \A k \in 1..Len(out) :
       /\ out[k].sym = list[k].sym
       /\ out[k].name = list[k].name
       /\ out[k].group = list[k].group
       /\ ~out[k].ok => IsErrorStub(out[k])
  /\ bpc = "returned" => Len(out) = Len(list)
  /\ bpc \in {"item", "gap", "pause"} => Len(out) = IF bpc = "item" THEN bk ELSE bk + 1

C5_Witness ==
  /\ bpc = "returned"
  /\ list = RunHeatmap
  /\ out[1].error = ParseError("Close value is not numeric")
  /\ out[2].ok
  /\ out[HeatmapLen].error = HttpError(DailyLabel(list[HeatmapLen].sym), 404)

\* C6 (as claimed): a run that wrote both files exits 2 exactly when no item of
\* either list is ok, and 0 when some item of either list is ok; any other exit
\* is the unhandled-error exit 1.
C6_ExitTwoIffNothingSucceeded ==
  mpc = "exited" =>
    /\ exitCode \in {0, 1, 2}
    /\ exitCode # 1 =>
         /\ exitCode = 2 <=> (OkCount(results) = 0 /\ OkCount(out) = 0)
         /\ (OkCount(results) > 0 \/ OkCount(out) > 0) => exitCode = 0

\* C7 (as claimed): every item in the output files is fully populated or an
\* error stub.
C7_FullyPopulatedOrStub ==
  \A it \in FileItems(tapeFile) \cup FileItems(heatmapFile) :
    IsFullyPopulated(it) \/ IsErrorStub(it)

\* C7 (amended): every item in the output files is an error stub, or ok = true
\* with a date and a finite close, where prevDate and prevClose may be null;
\* prevClose is never a non-finite number, and when it is null so is prevDate
\* and deltaPct is 0.
C7_PopulatedUpToPrevOrStub ==
  \A it \in FileItems(tapeFile) \cup FileItems(heatmapFile) :
    \/ IsErrorStub(it)
    \/ /\ it.ok
       /\ it.error.kind = "null"
       /\ it.date.t = "string" /\ IsFinite(it.close)
       /\ it.prevDate.t \in {"string", "null"}
       /\ it.prevClose.t = "null" \/ IsFinite(it.prevClose)
       /\ it.deltaPct.t = "number"
       /\ it.prevClose.t = "null" => (it.prevDate.t = "null" /\ it.deltaPct = JInt(0))

C7_Witness ==
  /\ mpc = "exited"
  /\ \E k \in 1..Len(tapeFile.items) :
       /\ tapeFile.items[k].ok
       /\ tapeFile.items[k].date = JStr(D3)
       /\ tapeFile.items[k].prevClose = JNull
  /\ \E k \in 1..Len(heatmapFile.items) : IsErrorStub(heatmapFile.items[k])

(***************************************************************************)
(* Claims about fetchOne (checked under SpecOne)                           *)
(***************************************************************************)
\* C8: in every ok result of fetchOne (prior-run fallback applied), deltaPct is
\* (close / prevClose - 1) * 100 of the result's own close and prevClose when
\* prevClose is finite and non-zero, and 0 otherwise.
C8_DeltaPctFromOwnFields ==
  (opc = "done" /\ item.ok) =>
    LET c == item.close
        p == item.prevClose
        dp == item.deltaPct
    IN IF p.t = "number" /\ p.d # 0 /\ p.n # 0
         THEN /\ IsFinite(dp) /\ IsFinite(c)
              /\ dp.n * (c.d * p.n) = dp.d * 100 * (c.n * p.d - c.d * p.n)
         ELSE dp = JInt(0)

\* One data row at 110 and a prior record of another day at 50: +120 %.
C8_Witness ==
  /\ opc = "done" /\ item.ok
  /\ nLines = 2
  /\ cur.prevClose = JNull
  /\ item.close = JInt(110)
  /\ item.prevClose = JInt(50)
  /\ item.deltaPct = JInt(120)

\* fetchOne is over and its daily fetch threw (lines was never assigned).
DailyFetchThrew == opc = "done" /\ nLines = -1

\* C9 (as claimed): when the daily fetch threw, the quote endpoint was tried
\* before the error stub was returned.
C9_QuoteAfterDailyFailure == DailyFetchThrew => nQuote > 0

\* C9 (amended): when the daily fetch throws, fetchOne returns the error stub
\* with that error and never asks for a quote; a quote is requested only after
\* a daily text with fewer than two lines.
C9_StubWithoutQuote ==
  /\ DailyFetchThrew =>
       /\ nQuote = 0
       /\ label.ep = "Daily CSV"
       /\ rthrown.kind \in {"http", "net"}
       /\ IsErrorStub(item)
       /\ item.error = rthrown
  /\ nQuote > 0 => nLines \in {0, 1}

C9_Witness ==
  /\ DailyFetchThrew
  /\ nFetch = RETRY_COUNT + 1
  /\ item.error = NetError("ECONNRESET")
  /\ nQuote = 0

\* C10 (as claimed): a daily CSV with exactly one data row (header plus one row)
\* sends fetchOne to the quote endpoint.
C10_OneDataRowTakesQuote == (opc = "done" /\ nLines = 2) => nQuote > 0

\* C10 (amended): the quote fallback is taken for a daily CSV of exactly one line
\* (header only): in an ok result the locals before the prior-run fallback are
\* the quote's date and close, no previous close and deltaPct 0.  A CSV with one
\* data row is parsed without a quote: date and close are that row's, with no
\* previous close and deltaPct 0.
C10_HeaderOnlyTakesQuote ==
  (opc = "done" /\ item.ok) =>
    LET lines == NonEmptyLines(rret)
    IN /\ nLines = 1 =>
            /\ nQuote > 0
            /\ label.ep = "Quote"
            /\ cur = [date |-> Field(lines[2], 1), close |-> ToNumber(Field(lines[2], 3)),
                      prevDate |-> JNull, prevClose |-> JNull, deltaPct |-> JInt(0)]
       /\ nLines = 2 =>
            /\ nQuote = 0
            /\ label.ep = "Daily CSV"
            /\ cur = [date |-> Field(lines[2], 0), close |-> ToNumber(Field(lines[2], 4)),
                      prevDate |-> JNull, prevClose |-> JNull, deltaPct |-> JInt(0)]

C10_Witness ==
  /\ opc = "done" /\ item.ok
  /\ nLines = 1
  /\ nQuote > 0
  /\ cur.date = JStr(D3)
  /\ cur.close = JNum(203, 2)
  /\ cur.prevClose = JNull

\* fetchOne returned an ok item whose prevClose came from the prior run's record.
PrevCloseFromPrior ==
  /\ opc = "done" /\ item.ok
  /\ ~FiniteNonZero(cur.prevClose)
  /\ FiniteNonZero(item.prevClose)

\* C11 (as claimed): whenever applyPrevFallback took prevClose from the prior
\* run's record, the result's prevDate differs from the result's date.
C11_NeverComparesDayToItself == PrevCloseFromPrior => item.prevDate # item.date

(***************************************************************************)
(* Claims about parseLastCloseMaybePrev (checked under SpecParse)          *)
(***************************************************************************)
\* A daily CSV is empty or starts with the header; its other lines are data rows.
IsDailyCsv(text) ==
  LET lines == NonEmptyLines(text)
  IN lines = << >> \/ (lines[1] = HeaderRow /\ \A k \in 2..Len(lines) : lines[k] # HeaderRow)

DataRowCount(text) ==
  LET lines == NonEmptyLines(text) IN IF lines = << >> THEN 0 ELSE Len(lines) - 1

\* C12 (as claimed): parseLastCloseMaybePrev throws for every daily CSV with 0 or
\* 1 data rows.
C12_ThrowsUpToOneDataRow ==
  (ppc = "done" /\ IsDailyCsv(pcsv) /\ DataRowCount(pcsv) <= 1) => pret.threw

\* C12 (amended): parseLastCloseMaybePrev throws its "no daily data" error for
\* every daily CSV with no data row (fewer than two non-empty lines); a CSV of
\* exactly two non-empty lines whose last close is numeric does not throw, it
\* returns a current value whose previous fields are null.
C12_ThrowsWithoutDataRow ==
  ppc = "done" =>
    LET lines == NonEmptyLines(pcsv)
    IN /\ Len(lines) < 2 =>
            /\ pret.threw
            /\ pret.err = ParseError("No daily data returned (header-only CSV)")
       /\ (Len(lines) = 2 /\ IsFinite(ToNumber(Field(lines[2], 4)))) =>
            /\ ~pret.threw
            /\ pret.close = ToNumber(Field(lines[2], 4))
            /\ pret.prevDate = JNull /\ pret.prevClose = JNull

C12_Witness ==
  /\ ppc = "done"
  /\ pcsv = <<EmptyLine, HeaderRow, EmptyLine>>
  /\ pret.threw
  /\ pret.err.kind = "parse"

\* C13: for every daily CSV with at least 2 non-empty lines and a numeric last
\* close, parseLastCloseMaybePrev returns the last line's date and close; the
\* previous date and close are the second-to-last line's when there are at least
\* 3 lines and that close is numeric, and null otherwise, without a throw.
C13_LastRowAndMaybePrev ==
  ppc = "done" =>
    LET lines == NonEmptyLines(pcsv)
        n == Len(lines)
    IN (n >= 2 /\ IsFinite(ToNumber(Field(lines[n], 4)))) =>
         /\ ~pret.threw
         /\ pret.date = Field(lines[n], 0)
         /\ pret.close = ToNumber(Field(lines[n], 4))
         /\ IF n >= 3 /\ IsFinite(ToNumber(Field(lines[n - 1], 4)))
              THEN /\ pret.prevDate = Field(lines[n - 1], 0)
                   /\ pret.prevClose = ToNumber(Field(lines[n - 1], 4))
              ELSE /\ pret.prevDate = JNull
                   /\ pret.prevClose = JNull

\* A previous close of "N/D" before a numeric last close: no throw, no previous.
C13_Witness ==
  /\ ppc = "done"
  /\ pcsv = <<HeaderRow, Row(D1, "100"), Row(D2, "N/D"), Row(D3, "0")>>
  /\ ~pret.threw
  /\ pret.date = JStr(D3) /\ pret.close = JInt(0)
  /\ pret.prevDate = JNull /\ pret.prevClose = JNull

(***************************************************************************)
(* Claims about the FRED merge (checked under SpecFred)                    *)
(***************************************************************************)
KeysOf(m) == {m[i].k : i \in 1..Len(m)}
DatesOf(observations) == {observations[i].date : i \in 1..Len(observations)}
TableOf(f) == ParseCsvToMap(ReadIfExists(f))

\* C14 (as claimed): a pass that merges the same fetched list into the table the
\* earlier pass with that list produced counts zero changes and writes a
\* byte-identical CSV, for every fetched list.
C14_MergeIdempotent ==
  \A i \in 1..Len(flog) : \A j \in (i + 1)..Len(flog) :
    (/\ flog[j].id = flog[i].id
     /\ flog[j].observations = flog[i].observations
     /\ flog[j].before = flog[i].after)
      => (flog[j].changed = 0 /\ flog[j].after = flog[j].before)

\* C15 (as claimed): a merge keeps every date of the table, leaves the dates
\* absent from the fetch with their values, holds every fetched date afterwards,
\* and counts exactly one change for each date that is new or whose value was
\* replaced.
C15_RevisionSafeMerge ==
  \A k \in 1..Len(flog) :
    LET m0 == TableOf(flog[k].before)
        m1 == TableOf(flog[k].after)
        fetched == DatesOf(flog[k].observations)
    IN /\ KeysOf(m0) \subseteq KeysOf(m1)
       /\ \A d \in KeysOf(m0) \ fetched : EntriesGet(m1, d) = EntriesGet(m0, d)
       /\ fetched \subseteq KeysOf(m1)
       /\ flog[k].changed =
            Cardinality({d \in KeysOf(m1) : EntriesGet(m1, d) # EntriesGet(m0, d)})

\* The value of the last observation of the list for the date.
LastValueFor(observations, d) ==
  LET at == {i \in 1..Len(observations) : observations[i].date = d}
  IN observations[CHOOSE i \in at : \A j \in at : j <= i].value

\* The passes logged so far, the last of them being the pass that has just
\* written its file.  The log only grows, so every pass is the last one in the
\* states that follow it, and what holds of the last pass in every reachable
\* state holds of every pass.
HasPassed == flog # << >>
LastPass == flog[Len(flog)]

\* C16: when the fetched list holds a date more than once, the value written
\* for the date is the one of its last occurrence in the list.
C16_LastDuplicateWins ==
  HasPassed =>
    \A d \in DatesOf(LastPass.observations) :
      EntriesGet(TableOf(LastPass.after), d) = JStr(LastValueFor(LastPass.observations, d))

\* [(2024-01-01,1.0),(2024-02-01,2.0),(2024-02-01,2.5)] into an empty table.
C16_Witness ==
  \E k \in 1..Len(flog) :
    /\ flog[k].observations = <<Obs(F1, "1.0"), Obs(F2, "2.0"), Obs(F2, "2.5")>>
    /\ ~flog[k].before.exists
    /\ flog[k].after.text = <<CsvHeader, <<F1, "1.0">>, <<F2, "2.5">>, EmptyLine>>

\* The data rows of a written CSV: what lies between the header and the final
\* line break.
RowsOfCsv(text) == SelectSeq(Tail(text), LAMBDA l : l # EmptyLine)

StrictlyAscending(text) ==
  LET rows == RowsOfCsv(text)
  IN /\ text[1] = CsvHeader
     /\ \A a \in 1..Len(rows) : \A b \in (a + 1)..Len(rows) :
          DateIndex(rows[a][1]) < DateIndex(rows[b][1])

\* C17: every series CSV a run wrote lists unique, strictly increasing dates,
\* whatever the order and duplicates of the fetched observations and of the rows
\* of the prior file.
C17_WrittenDatesStrictlyAscending ==
  /\ HasPassed => StrictlyAscending(LastPass.after.text)
  /\ dataFiles[RATIO_FILE].exists => StrictlyAscending(dataFiles[RATIO_FILE].text)

C17_Witness ==
  \E k \in 1..Len(flog) :
    /\ flog[k].before = EditedHouseFile
    /\ flog[k].observations = <<Obs(F2, "2.5"), Obs(F1, "1.0")>>
    /\ flog[k].after.text =
         <<CsvHeader, <<F1, "1.0">>, <<F2, "2.5">>, <<F3, "2.0">>, EmptyLine>>

\* The series file holds a table with a last date.
HasLastDate(f) == TableOf(f) # << >>

\* C18 (as claimed): a series with a persisted table is requested from its last
\* date minus the backfill window, which for last dates in 2024 lies after the
\* fallback start date; only a series without a table is requested from the
\* fallback start date.
C18_IncrementalStart ==
  \A k \in 1..Len(flog) : HasLastDate(flog[k].before) => flog[k].start # "1970-01-01"

\* C18 (amended): every series is requested from the fixed start date
\* 1970-01-01, whether or not it has a persisted table with a last date.
C18_FixedStart ==
  HasPassed => LastPass.start = "1970-01-01"

C18_Witness ==
  \E k \in 1..Len(flog) :
    /\ flog[k].id = HOUSE_ID
    /\ flog[k].before = WrittenHouseFile
    /\ flog[k].start = "1970-01-01"

(***************************************************************************)
(* The news script: parseRss and main                                      *)
(*                                                                         *)
(* A text is a sequence of chunks: plain strings, the white space chunk,   *)
(* the five entity references and the two CDATA delimiters.  The feed is a *)
(* sequence of segments; a segment is an <item>...</item> block or other   *)
(* markup, and carries for each tag its raw content or NoTag.  Plain       *)
(* chunks of the modelled feeds never continue an entity reference, so     *)
(* the order of the replacements in decodeEntities does not show.          *)
(***************************************************************************)
MAX_ITEMS == 18

NoTag == <<"no tag">>
WhiteSpace == " "
CdataOpen == "<![CDATA["
CdataClose == "]]>"

DecodeChunk(c) ==
  CASE c = "&amp;" -> "&"
    [] c = "&lt;" -> "<"
    [] c = "&gt;" -> ">"
    [] c = "&quot;" -> "\""
    [] c = "&#39;" -> "'"
    [] OTHER -> c

DecodeEntities(value) == [i \in 1..Len(value) |-> DecodeChunk(value[i])]

\* Each <![CDATA[ with the nearest ]]> after it is replaced by what they
\* enclose; the search goes on after the replaced part.
RECURSIVE StripCdata(_)
StripCdata(value) ==
  LET opens == {i \in 1..Len(value) :
                  /\ value[i] = CdataOpen
                  /\ \E j \in (i + 1)..Len(value) : value[j] = CdataClose}
  IN IF opens = {} THEN value
     ELSE LET i == CHOOSE x \in opens : \A y \in opens : x <= y
              closes == {j \in (i + 1)..Len(value) : value[j] = CdataClose}
              j == CHOOSE x \in closes : \A y \in closes : x <= y
          IN SubSeq(value, 1, i - 1) \o SubSeq(value, i + 1, j - 1)
               \o StripCdata(SubSeq(value, j + 1, Len(value)))

\* value.trim()
TrimText(value) ==
  LET inked == {i \in 1..Len(value) : value[i] # WhiteSpace}
  IN IF inked = {} THEN << >>
     ELSE SubSeq(value, CHOOSE x \in inked : \A y \in inked : x <= y,
                        CHOOSE x \in inked : \A y \in inked : y <= x)

ExtractTag(block, tag) ==
  IF block[tag] = NoTag THEN << >>
  ELSE TrimText(DecodeEntities(StripCdata(block[tag])))

\* a || b on strings
OrElse(a, b) == IF a # << >> THEN a ELSE b

NewsItem(title, link, pubDate) == [title |-> title, link |-> link, pubDate |-> pubDate]

RECURSIVE CollectItems(_, _)
CollectItems(blocks, i) ==
  IF i > Len(blocks) THEN << >>
  ELSE LET title == ExtractTag(blocks[i], "title")
           link == OrElse(ExtractTag(blocks[i], "link"), ExtractTag(blocks[i], "guid"))
           pubDate == ExtractTag(blocks[i], "pubDate")
           rest == CollectItems(blocks, i + 1)
       IN IF title = << >> \/ link = << >> THEN rest
          ELSE <<NewsItem(title, link, pubDate)>> \o rest

\* deduped.length > MAX_ITEMS
OverMaxItems(n) == n > MAX_ITEMS

\* deduped.length >= MAX_ITEMS
ReachedMaxItems(n) == n >= MAX_ITEMS

RECURSIVE DedupLoop(_, _, _, _)
DedupLoop(items, i, seen, deduped) ==
  IF i > Len(items) THEN deduped
  ELSE LET key == items[i].link
       IN IF key \in seen THEN DedupLoop(items, i + 1, seen, deduped)
          ELSE LET pushed == Append(deduped, items[i])
               IN IF ReachedMaxItems(Len(pushed)) THEN pushed
                  ELSE DedupLoop(items, i + 1, seen \cup {key}, pushed)

IsItemBlock(segment) == segment.item

ParseRss(text) ==
  LET blocks == SelectSeq(text, IsItemBlock)
      items == CollectItems(blocks, 1)
  IN DedupLoop(items, 1, {}, << >>)

\* main().catch: console.error(err), process.exit(1).
NewsFail ==
  /\ npc' = "exited"
  /\ nexit' = 1

\* The fetch of the feed settles: rejected (status 0) or not ok, main throws;
\* ok, it calls res.text().
NewsFetched(status) ==
  /\ npc = "fetch"
  /\ IF status = 0 \/ ~ResOk(status)
       THEN NewsFail
       ELSE /\ npc' = "body"
            /\ UNCHANGED nexit
  /\ UNCHANGED <<xml, nitems, newsFile, dirExists, tvars, pvars, frest, avars>>

\* res.text() settles: main parses the feed, builds the payload and calls
\* fs.mkdir; a body that cannot be read rejects main.
NewsBodyRead(text, read) ==
  /\ npc = "body"
  /\ IF read
       THEN /\ xml' = text
            /\ nitems' = ParseRss(text)
            /\ npc' = "mkdir"
            /\ UNCHANGED nexit
       ELSE /\ NewsFail
            /\ UNCHANGED <<xml, nitems>>
  /\ UNCHANGED <<newsFile, dirExists, tvars, pvars, frest, avars>>

\* fs.mkdir("data", {recursive: true}) settles: main calls fs.writeFile, or
\* rejects.
NewsDirMade(made) ==
  /\ npc = "mkdir"
  /\ IF made
       THEN /\ dirExists' = TRUE
            /\ npc' = "write"
            /\ UNCHANGED nexit
       ELSE /\ NewsFail
            /\ UNCHANGED dirExists
  /\ UNCHANGED <<xml, nitems, newsFile, tvars, pvars, frest, avars>>

\* The payload main serialises, without its time stamp and feed address.
NewsPayload(items) == [exists |-> TRUE, source |-> "CNBC Finance RSS", items |-> items]

\* fs.writeFile("data/news.json") settles: main logs and ends, or rejects.
NewsFileWritten(wrote) ==
  /\ npc = "write"
  /\ IF wrote
       THEN /\ newsFile' = NewsPayload(nitems)
            /\ npc' = "exited"
            /\ nexit' = 0
       ELSE /\ NewsFail
            /\ UNCHANGED newsFile
  /\ UNCHANGED <<xml, nitems, dirExists, tvars, pvars, frest, avars>>

(***************************************************************************)
(* SpecAsOf: one direct call of asOf on every series of up to MaxPoints    *)
(* points that is sorted ascending by date (repeated dates included), as   *)
(* readSeriesCsv returns it, and every target date of AsOfTargets.         *)
(***************************************************************************)
MaxPoints == 3

AsOfDates == {"2020-01-01", "2021-01-01", "2021-06-01"}
AsOfValues == {JInt(10), JInt(20)}
AsOfTargets == {"2019-01-01", "2020-01-01", "2020-06-01", "2021-01-01", "2021-06-01"}

AsOfPoints == {Point(d, v) : d \in AsOfDates, v \in AsOfValues}

SortedByDate(s) ==
  \A i \in 1..Len(s) : \A j \in 1..Len(s) : i < j => DateIndex(s[i].date) <= DateIndex(s[j].date)

AsOfSeries ==
  {s \in UNION {[1..n -> AsOfPoints] : n \in 0..MaxPoints} : SortedByDate(s)}

CallAsOf ==
  /\ apc = "call"
  /\ abest' = AsOf(aseries, atarget)
  /\ apc' = "done"
  /\ UNCHANGED <<aseries, atarget, tvars, pvars, fvars, nvars>>

InitAsOf ==
  /\ apc = "call"
  /\ aseries \in AsOfSeries
  /\ atarget \in AsOfTargets
  /\ abest = JNull
  /\ IdleRetry /\ IdleOne /\ IdleBatch /\ IdleMain
  /\ IdleParse /\ IdleFred /\ IdleNews

NextAsOf == CallAsOf

SpecAsOf == InitAsOf /\ [][NextAsOf]_vars

\* The indexes of the entries dated at or before the target.
AtOrBefore(series, targetDate) ==
  {k \in 1..Len(series) : DateIndex(series[k].date) <= DateIndex(targetDate)}

\* C19: on a series sorted ascending by date asOf returns the value of an
\* entry whose date is the greatest one at or before the target, and null
\* when no entry is dated at or before the target.
C19_AsOfGreatestDateAtOrBefore ==
  apc = "done" =>
    LET cand == AtOrBefore(aseries, atarget)
    IN IF cand = {}
         THEN abest = JNull
         ELSE \E k \in cand :
                /\ \A j \in cand : DateIndex(aseries[j].date) <= DateIndex(aseries[k].date)
                /\ abest = aseries[k].value

C19_Witness ==
  /\ apc = "done"
  /\ aseries = <<Point("2020-01-01", JInt(10)), Point("2021-01-01", JInt(20))>>
  /\ atarget = "2020-06-01"
  /\ abest = JInt(10)

(***************************************************************************)
(* SpecRss: one run of the news script.  The feed's server answers with a  *)
(* status of FeedStatuses and any feed of ShortFeeds (up to MaxShort       *)
(* segments of any kind) and of LongFeeds (up to MaxBlocks segments, items *)
(* with their own title and link but one); each wait on the body, on       *)
(* fs.mkdir and on fs.writeFile may be rejected.                           *)
(***************************************************************************)
MaxShort == 3
MaxBlocks == 20

Segment(isItem, title, link, guid, pubDate) ==
  [item |-> isItem, title |-> title, link |-> link, guid |-> guid, pubDate |-> pubDate]

TitleA == <<"Stocks rise">>
TitleB == <<"Stocks fall">>
LinkA == <<"https://example.com/a">>
LinkB == <<"https://example.com/b?x=1", "&", "y=2">>
PubDate == <<"Mon, 01 Jan 2024 00:00:00 GMT">>

ShortSegments ==
  { Segment(TRUE, TitleA, LinkA, NoTag, PubDate),
    Segment(TRUE, TitleB, LinkA, NoTag, NoTag),
    Segment(TRUE, TitleB, LinkB, LinkA, PubDate),
    Segment(TRUE, <<CdataOpen>> \o TitleA \o <<CdataClose>>,
                  <<"https://example.com/b?x=1", "&amp;", "y=2">>, NoTag, NoTag),
    Segment(TRUE, TitleA, <<WhiteSpace>> \o LinkA \o <<WhiteSpace>>, NoTag, NoTag),
    Segment(TRUE, TitleA, NoTag, LinkA, NoTag),
    Segment(TRUE, TitleB, << >>, <<CdataOpen>> \o LinkB \o <<CdataClose>>, NoTag),
    Segment(TRUE, <<WhiteSpace>>, LinkB, NoTag, PubDate),
    Segment(TRUE, NoTag, LinkA, LinkB, NoTag),
    Segment(TRUE, TitleA, NoTag, NoTag, PubDate),
    Segment(FALSE, TitleA, LinkB, NoTag, NoTag) }

ShortFeeds == UNION {[1..n -> ShortSegments] : n \in 0..MaxShort}

OwnTitle(i) == <<"Headline ", ToString(i)>>
OwnLink(i) == <<"https://example.com/", ToString(i)>>

Variants == {"own", "repeated link", "padded repeated link", "guid", "no title", "no link", "no item"}

LongSegment(i, variant) ==
  CASE variant = "own" -> Segment(TRUE, OwnTitle(i), OwnLink(i), NoTag, PubDate)
    [] variant = "repeated link" -> Segment(TRUE, OwnTitle(i), OwnLink(1), NoTag, PubDate)
    [] variant = "padded repeated link" ->
         Segment(TRUE, OwnTitle(i), <<WhiteSpace>> \o OwnLink(1), OwnLink(i), PubDate)
    [] variant = "guid" -> Segment(TRUE, OwnTitle(i), NoTag, OwnLink(i), PubDate)
    [] variant = "no title" -> Segment(TRUE, NoTag, OwnLink(i), NoTag, PubDate)
    [] variant = "no link" -> Segment(TRUE, OwnTitle(i), NoTag, NoTag, PubDate)
    [] variant = "no item" -> Segment(FALSE, OwnTitle(i), OwnLink(i), NoTag, PubDate)

LongFeed(n, p, variant) ==
  [i \in 1..n |-> LongSegment(i, IF i = p THEN variant ELSE "own")]

LongFeeds == {LongFeed(n, p, variant) : n \in 1..MaxBlocks, p \in 2..MaxBlocks, variant \in Variants}

\* What the feed's server answers (0: no answer), and the feeds it sends.
FeedStatuses == {0, 200, 500}
Feeds == ShortFeeds \cup LongFeeds

InitRss ==
  /\ npc = "fetch"
  /\ xml = << >>
  /\ nitems = << >>
  /\ newsFile = NoNewsFile
  /\ nexit = -1
  /\ dirExists \in BOOLEAN
  /\ IdleRetry /\ IdleOne /\ IdleBatch /\ IdleMain
  /\ IdleParse /\ IdleFredRun /\ IdleAsOf

RssNewsFetched == \E status \in FeedStatuses : NewsFetched(status)
RssNewsBodyRead ==
  /\ npc = "body"
  /\ \E text \in Feeds, read \in Settles : NewsBodyRead(text, read)
RssNewsDirMade == \E made \in Settles : NewsDirMade(made)
RssNewsFileWritten == \E wrote \in Settles : NewsFileWritten(wrote)

NextRss ==
  \/ RssNewsFetched
  \/ RssNewsBodyRead
  \/ RssNewsDirMade
  \/ RssNewsFileWritten

SpecRss == InitRss /\ [][NextRss]_vars

\* What parseRss reads in each item block of a feed: its title, and its
\* link or else its guid.
TitlesIn(blocks) == [k \in 1..Len(blocks) |-> ExtractTag(blocks[k], "title")]
LinksIn(blocks) ==
  [k \in 1..Len(blocks) |->
     IF ExtractTag(blocks[k], "link") # << >> THEN ExtractTag(blocks[k], "link")
     ELSE ExtractTag(blocks[k], "guid")]

\* The blocks with a title and a link whose link no earlier such block has.
FirstSeen(titles, links) ==
  LET valid == {k \in DOMAIN titles : titles[k] # << >> /\ links[k] # << >>}
  IN {k \in valid : \A j \in valid : j < k => links[j] # links[k]}

\* C20: parseRss returns, in feed order, the first MAX_ITEMS of the items
\* that have a title and a link (the guid standing in for a missing link)
\* and whose link no earlier such item has; the output links are pairwise
\* distinct and there are never more than MAX_ITEMS of them.
C20_ParseRssFirstSeenCapped ==
  npc \in {"mkdir", "write", "exited"} =>
    LET blocks == SelectSeq(xml, IsItemBlock)
        titles == TitlesIn(blocks)
        links == LinksIn(blocks)
        first == FirstSeen(titles, links)
    IN /\ Len(nitems) <= MAX_ITEMS
       /\ Len(nitems) = IF Cardinality(first) < MAX_ITEMS THEN Cardinality(first) ELSE MAX_ITEMS
       /\ \A a \in 1..Len(nitems) : \A b \in 1..Len(nitems) :
            a # b => nitems[a].link # nitems[b].link
       /\ \A a \in 1..Len(nitems) :
            \E k \in first :
              /\ Cardinality({j \in first : j <= k}) = a
              /\ nitems[a].title = titles[k]
              /\ nitems[a].link = links[k]

C20_Witness ==
  /\ npc = "exited"
  /\ nexit = 0
  /\ newsFile.items = nitems
  /\ Len(nitems) = MAX_ITEMS
  /\ LET blocks == SelectSeq(xml, IsItemBlock)
         titles == TitlesIn(blocks)
         links == LinksIn(blocks)
     IN /\ Cardinality(FirstSeen(titles, links)) > MAX_ITEMS
        /\ \E j \in 1..Len(blocks) : \E k \in 1..Len(blocks) :
             /\ j < k
             /\ k < MAX_ITEMS
             /\ links[j] = links[k]
             /\ titles[j] # titles[k]
             /\ titles[j] # << >>
             /\ titles[k] # << >>

(***************************************************************************)
(* SpecGate: the start of a tape run at every minute of every weekday: the *)
(* time gate, and main's first step when the gate lets the run through.    *)
(***************************************************************************)
Weekdays == {"Mon", "Tue", "Wed", "Thu", "Fri", "Sat", "Sun"}
AllClocks == {NyTime(d, t) : d \in Weekdays, t \in 0..1439}

InitGate ==
  /\ mpc = "gate"
  /\ now \in AllClocks
  /\ pendingReads = {}
  /\ priorTapeMap = << >>
  /\ priorHeatmapMap = << >>
  /\ results = << >>
  /\ tapeFile \in RunPriorTapeFiles
  /\ heatmapFile = NoFile
  /\ exitCode = -1
  /\ writes = << >>
  /\ IdleRetry /\ IdleOne /\ IdleBatch /\ IdleOther

NextGate ==
  \/ TimeGate
  \/ MainStart
  \/ RunPriorFileRead

SpecGate == InitGate /\ [][NextGate]_vars

\* The distance in minutes between two minutes of the day, around the clock.
CircularDistance(a, b) ==
  LET d == (a - b) % 1440
  IN IF d < 1440 - d THEN d ELSE 1440 - d

\* The run is outside its schedule: a weekend, or farther than the grace
\* window from every configured target time.
OutsideSchedule(clock) ==
  \/ clock.weekday \in {"Sat", "Sun"}
  \/ \A k \in 1..Len(ALLOWED_TIMES) :
       CircularDistance(clock.minutes, ALLOWED_TIMES[k][1] * 60 + ALLOWED_TIMES[k][2])
         > GRACE_MINUTES

\* No request was issued and no file was read by the run.
NothingStarted ==
  /\ rpc = "idle" /\ nFetch = 0 /\ nSleep = 0
  /\ opc = "idle" /\ bpc = "idle"
  /\ pendingReads = {}
  /\ fallbackMap = << >> /\ priorTapeMap = << >> /\ priorHeatmapMap = << >>

\* C21: the gate is the first step of the run, taken before any request or
\* file access.  On a New York Saturday or Sunday, or when the New York time
\* is farther (around the clock) than the grace window from every target
\* time, it ends the run with exit code 0, leaving both files and every
\* counter as they were, and nothing follows; otherwise main starts.
C21_GateSkipsOutsideSchedule ==
  [][ /\ mpc = "gate" =>
           /\ NothingStarted
           /\ IF OutsideSchedule(now)
                THEN /\ mpc' = "skipped"
                     /\ exitCode' = 0
                     /\ NothingStarted'
                     /\ UNCHANGED <<tapeFile, heatmapFile>>
                ELSE /\ mpc' = "start"
                     /\ exitCode' = -1
      /\ mpc # "skipped"
      /\ mpc' \in {"start", "reading", "tape"} => ~OutsideSchedule(now) ]_vars

C21_Witness ==
  /\ mpc = "skipped"
  /\ exitCode = 0
  /\ now = NyTime("Mon", 10 * 60 + 46)
  /\ NothingStarted

(***************************************************************************)
(* Claims about the FRED script's main (checked under SpecFred)            *)
(***************************************************************************)
\* C22: with FRED_API_KEY absent the run ends with exit code 1 at its first
\* step: the loop over the series is never entered, so nothing is fetched,
\* and the data directory and every file stay as they were.
C22_MissingKeyFailsFast ==
  [][ apiKey = JUndefined =>
        /\ fpc = "start" => fpc' = "exited" /\ fexit' = 1
        /\ fpc' \in {"start", "exited"}
        /\ UNCHANGED <<dirExists, dataFiles, flog>> ]_vars

C22_Witness ==
  /\ apiKey = JUndefined
  /\ fpc = "exited"
  /\ fexit = 1
  /\ ~dirExists
  /\ flog = << >>

\* The points of a series file dated d, and whether the file has any point
\* dated d or earlier.
PointsAt(series, d) == {k \in 1..Len(series) : series[k].date = d}
HasPointAtOrBefore(series, d) ==
  \E k \in 1..Len(series) : DateIndex(series[k].date) <= DateIndex(d)

\* C23: when the run derived the ratio table, the table has a row for an
\* income date exactly when the income value at that date is not zero and
\* some house-price point is dated at or before it; the row's value is
\* asOf(house, date) divided by the income value, and the table has no row
\* for any other date.
C23_RatioRowsWhereDefined ==
  (fpc = "exited" /\ fexit = 0) =>
    LET income == ReadSeriesCsv(dataFiles[INCOME_ID])
        house == ReadSeriesCsv(dataFiles[HOUSE_ID])
        ratio == ParseCsvToMap(ReadIfExists(dataFiles[RATIO_FILE]))
    IN (income # << >> /\ house # << >>) =>
         /\ \A i \in 1..Len(income) :
              LET d == income[i].date
                  defined == income[i].value # JInt(0) /\ HasPointAtOrBefore(house, d)
              IN /\ PointsAt(income, d) = {i}
                 /\ EntriesHas(ratio, d) <=> defined
                 /\ defined =>
                      EntriesGet(ratio, d)
                        = JStr(StringOfNumber(Divide(AsOf(house, d), income[i].value)))
         /\ \A k \in 1..Len(ratio) : PointsAt(income, ratio[k].k) # {}

C23_Witness ==
  /\ fpc = "exited" /\ fexit = 0
  /\ LET income == ReadSeriesCsv(dataFiles[INCOME_ID])
         house == ReadSeriesCsv(dataFiles[HOUSE_ID])
         ratio == ParseCsvToMap(ReadIfExists(dataFiles[RATIO_FILE]))
     IN /\ Len(income) = 3
        /\ income[2].value = JInt(0)
        /\ ~HasPointAtOrBefore(house, income[1].date)
        /\ HasPointAtOrBefore(house, income[2].date)
        /\ Len(ratio) = 1
        /\ ratio[1].k = income[3].date

(***************************************************************************)
(* Claims about a whole tape run (checked under Spec)                      *)
(***************************************************************************)
\* C24: at most one request is in flight at any time of a tape run: a
\* request (daily fetch, quote fallback, or a retry of either, in the tape
\* or the heatmap list) is issued only when no earlier one is unsettled.
C24_OneRequestInFlight ==
  /\ inFlight \in {0, 1}
  /\ inFlight = 1 <=> rpc = "fetch"

C24_Witness ==
  /\ mpc = "heatmap"
  /\ opc = "quote"
  /\ attempt = 2
  /\ inFlight = 1
  /\ nFetch = 2

(***************************************************************************)
(* SpecBatch: main's first fetchInBatches call on a list of 0 to MaxList   *)
(* items, every request answered at once with a two-row CSV, every sleep   *)
(* with any of the random draws.                                           *)
(***************************************************************************)
MaxList == 21

BatchList(n) == [i \in 1..n |-> Watch(ToString(i), "Item")]

InitBatch ==
  /\ mpc = "start"
  /\ now = NyTime("Mon", 10 * 60)
  /\ pendingReads = {}
  /\ priorTapeMap = << >>
  /\ priorHeatmapMap = << >>
  /\ results = << >>
  /\ tapeFile = NoFile
  /\ heatmapFile = NoFile
  /\ exitCode = -1
  /\ writes = << >>
  /\ IdleRetry /\ IdleOne /\ IdleBatch /\ IdleOther

BatchPriorFileRead ==
  \E path \in pendingReads, n \in 0..MaxList : PriorFileRead(path, BatchList(n))

NextBatch ==
  \/ MainStart
  \/ BatchPriorFileRead
  \/ RunAttempt
  \/ RunReadBody
  \/ DailyReturned
  \/ RunItemReturned
  \/ RunGapElapsed
  \/ PauseElapsed

SpecBatch == InitBatch /\ [][NextBatch]_vars

\* ceil(n / BATCH_SIZE)
ChunkCount(n) == (n + BATCH_SIZE - 1) \div BATCH_SIZE

\* C25: fetchInBatches takes the items in list order in consecutive chunks
\* of BATCH_SIZE, sleeps REQUEST_GAP_MS plus 0..REQUEST_JITTER_MS after each
\* item's fetch, and pauses BATCH_PAUSE_MS plus 0..BATCH_JITTER_MS once after
\* each chunk that is followed by another one: max(0, ceil(n / BATCH_SIZE) - 1)
\* times for n items, and never after the last chunk.
C25_ChunksGapsAndPauses ==
  LET n == Len(list)
  IN /\ bpc \in {"item", "gap", "pause"} =>
          /\ bi % BATCH_SIZE = 0
          /\ bi <= bk /\ bk < bi + BATCH_SIZE /\ bk < n
     /\ bpc = "item" =>
          /\ w = list[bk + 1]
          /\ Len(out) = bk /\ nGap = bk
          /\ nPause * BATCH_SIZE = bi
     /\ bpc = "gap" =>
          /\ Len(out) = bk + 1 /\ nGap = bk + 1
          /\ nPause * BATCH_SIZE = bi
          /\ pauseMs \in REQUEST_GAP_MS..(REQUEST_GAP_MS + REQUEST_JITTER_MS)
     /\ bpc = "pause" =>
          /\ nGap = bk + 1
          /\ bk + 1 = bi + BATCH_SIZE
          /\ bk + 1 < n
          /\ nPause * BATCH_SIZE = bk + 1
          /\ pauseMs \in BATCH_PAUSE_MS..(BATCH_PAUSE_MS + BATCH_JITTER_MS)
     /\ bpc = "returned" =>
          /\ nGap = n
          /\ nPause = IF ChunkCount(n) = 0 THEN 0 ELSE ChunkCount(n) - 1

C25_Witness ==
  /\ bpc = "returned"
  /\ Len(list) = 2 * BATCH_SIZE
  /\ nGap = 2 * BATCH_SIZE
  /\ nPause = 1

\* How often a path was written.
WriteCount(path) == Cardinality({k \in 1..Len(writes) : writes[k] = path})

\* C26 (as claimed): each output file is written exactly once, at the end of
\* the run: once a file has been written no request of the run is made.
C26_WrittenOnceAtEnd ==
  /\ WriteCount(TAPE_PATH) <= 1 /\ WriteCount(HEATMAP_PATH) <= 1
  /\ (mpc = "exited" /\ exitCode \in {0, 2}) =>
       WriteCount(TAPE_PATH) = 1 /\ WriteCount(HEATMAP_PATH) = 1
  /\ writes # << >> => inFlight = 0 /\ rpc \notin {"fetch", "body", "sleep"}

\* C26 (amended): each output file is written at most once and a run that
\* reaches main's end has written both exactly once: tape.json when the tape
\* list is fetched and before the first request of the heatmap list,
\* heatmap.json after the last request of the run.
C26_TapeWrittenBetweenLists ==
  /\ mpc \in {"gate", "skipped", "start", "reading", "tape", "writeTape"} => writes = << >>
  /\ mpc \in {"heatmap", "writeHeatmap"} => writes = <<TAPE_PATH>>
  /\ mpc \in {"writeTape", "writeHeatmap"} => inFlight = 0 /\ rpc = "idle" /\ bpc = "idle"
  /\ mpc = "exited" =>
       /\ inFlight = 0
       /\ exitCode \in {0, 2} => writes = <<TAPE_PATH, HEATMAP_PATH>>
       /\ exitCode = 1 => writes \in {<< >>, <<TAPE_PATH>>}
  /\ WriteCount(HEATMAP_PATH) > 0 => mpc = "exited"

C26_Witness ==
  /\ mpc = "heatmap"
  /\ writes = <<TAPE_PATH>>
  /\ tapeFile = WrittenFile(results)
  /\ inFlight = 1
  /\ bk = 0

(***************************************************************************)
(* Claims about fetchOne's use of the prior run (checked under SpecOne)    *)
(***************************************************************************)
\* C27: in the record fetchOne returns, date and close are the freshly
\* fetched ones; when the fresh prevClose is finite and not zero, prevDate,
\* prevClose and deltaPct are the fresh ones too, whatever the prior file
\* holds; prevDate or prevClose differ from the fresh ones only when the
\* fresh prevClose is zero or null and the prior file has the symbol.
C27_FreshDataKept ==
  (opc = "done" /\ item.ok) =>
    /\ item.date = cur.date
    /\ item.close = cur.close
    /\ (IsFinite(cur.prevClose) /\ cur.prevClose.n # 0) =>
         /\ item.prevDate = cur.prevDate
         /\ item.prevClose = cur.prevClose
         /\ item.deltaPct = cur.deltaPct
    /\ (item.prevDate # cur.prevDate \/ item.prevClose # cur.prevClose
          \/ item.deltaPct # cur.deltaPct) =>
         /\ cur.prevClose = JNull \/ cur.prevClose = JInt(0)
         /\ w.sym \in DOMAIN fallbackMap

C27_Witness ==
  /\ opc = "done" /\ item.ok
  /\ cur.prevClose = JInt(100)
  /\ item.prevClose = JInt(100)
  /\ item.prevDate = JStr(D1)
  /\ w.sym \in DOMAIN fallbackMap
  /\ fallbackMap[w.sym].date = JStr(D3)
  /\ fallbackMap[w.sym].close = JInt(50)

(***************************************************************************)
(* Termination of a tape run (checked under SpecLive)                      *)
(***************************************************************************)
\* The run is over: skipped by the gate or ended by main.
Terminated == mpc \in {"skipped", "exited"} /\ exitCode \in {0, 1, 2}

\* C28: when every request settles, the run ends with exit code 0, 1 or 2.
\* On the way no fetchTextWithRetry call makes more than RETRY_COUNT + 1
\* attempts, no fetchOne call makes more than three such calls (the daily
\* CSV and at most two quotes), and fetchInBatches visits each item of its
\* list once, in order.
C28_RunTerminates ==
  /\ [](/\ nFetch <= RETRY_COUNT + 1
        /\ attempt <= RETRY_COUNT + 1
        /\ nQuote <= 2
        /\ bpc \in {"item", "gap", "pause"} =>
             /\ bk < Len(list)
             /\ Len(out) = IF bpc = "item" THEN bk ELSE bk + 1
             /\ \A k \in 1..Len(out) : out[k].sym = list[k].sym
        /\ bpc = "returned" => Len(out) = Len(list))
  /\ <>Terminated

C28_Witness ==
  /\ mpc = "exited"
  /\ exitCode = 0
  /\ ~results[1].ok
  /\ results[1].error = HttpError(QuoteLabel("2yusy.b"), 503)
  /\ Len(results) = TapeLen
  /\ Len(out) = HeatmapLen
  /\ writes = <<TAPE_PATH, HEATMAP_PATH>>

(***************************************************************************)
(* The quote requests of one fetchOne call (checked under SpecOne)         *)
(***************************************************************************)
\* C29: whatever the daily CSV looks like, one fetchOne call invokes
\* fetchStooqQuote at most once.
C29_QuoteAtMostOnce == nQuote <= 1

\* What the code does: the second quote is requested exactly for a daily
\* CSV of one non-empty line, after the first quote has been parsed.
C29_SecondQuoteIffHeaderOnly ==
  /\ nQuote <= 2
  /\ nQuote = 2 => nLines = 1 /\ opc \in {"quote2", "done"}
  /\ (opc = "done" /\ item.ok /\ nLines = 1) => nQuote = 2
  /\ (opc = "done" /\ item.ok /\ nLines # 1) => nQuote = (IF nLines = 0 THEN 1 ELSE 0)

(***************************************************************************)
(* A FRED run whose fetch fails (checked under SpecFred)                   *)
(***************************************************************************)
\* What fetchObservations can throw: the rejection of its fetch, its own
\* error for a response that is not ok, the rejection of res.json(), the
\* TypeError of data.observations on null.
FetchErrors == {FetchError, HttpStatusError, JsonError, NullError}

\* The run ended with exit code 1 in the loop: the fetch of entry si threw.
FetchFailed == fpc = "exited" /\ fexit = 1 /\ ferr \in FetchErrors
FetchFailedAt(k) == FetchFailed /\ si = k

\* The current run has merged and written the file of series id.
RewrittenThisRun(id) ==
  \E j \in 1..Len(flog) :
    /\ flog[j].run = frun /\ flog[j].id = id
    /\ flog[j].after = dataFiles[id]
    /\ dataFiles[id].exists

\* C30 (as claimed): when the fetch of a series fails the run ends with exit
\* code 1 at that series: the files of the series before it in the list have
\* been rewritten, the files of that series and of the later ones and the
\* derived ratio file are as the run found them.
C30_FailedFetchStopsTheRun ==
  FetchFailed =>
    /\ si \in 1..Len(RunSeries)
    /\ \A k \in 1..(si - 1) : RewrittenThisRun(RunSeries[k])
    /\ \A k \in si..Len(RunSeries) : dataFiles[RunSeries[k]] = filesAtStart[RunSeries[k]]
    /\ dataFiles[RATIO_FILE] = filesAtStart[RATIO_FILE]

\* The passes the current run has logged, in order.
PassesOfRun == SelectSeq(flog, LAMBDA p : p.run = frun)

\* The entries before entry k that name the series id.
EarlierEntries(id, k) == {j \in 1..(k - 1) : RunSeries[j] = id}

\* What the code does: the run ends with exit code 1 at the failing entry,
\* having logged exactly the passes of the entries before it; a series file
\* is as the last of these passes for its id wrote it, or as the run found
\* it when no earlier entry names its id; the ratio file is as the run found
\* it.  A run whose fetch throws never ends with 0.
C30_FailedFetchStopsAtTheEntry ==
  /\ (fpc = "exited" /\ ferr \in FetchErrors) => fexit = 1
  /\ FetchFailed =>
       LET passes == PassesOfRun
       IN /\ si \in 1..Len(RunSeries)
          /\ Len(passes) = si - 1
          /\ \A k \in 1..(si - 1) : passes[k].id = RunSeries[k]
          /\ \A id \in FredFileNames \ {RATIO_FILE} :
               LET at == EarlierEntries(id, si)
               IN dataFiles[id] =
                    IF at = {} THEN filesAtStart[id]
                    ELSE passes[CHOOSE j \in at : \A i \in at : i <= j].after
          /\ dataFiles[RATIO_FILE] = filesAtStart[RATIO_FILE]

\* The request of the last entry fails: the income file, which the run found
\* holding one row, holds the three rows the pass of entry 5 wrote.
C30_FailsAtRepeatedSeries ==
  /\ FetchFailedAt(Len(RunSeries))
  /\ ferr = HttpStatusError
  /\ frun = 1
  /\ filesAtStart[INCOME_ID] = WrittenIncomeFile
  /\ dataFiles[INCOME_ID] =
       DataFile(MapToCsv(<<Entry(F1, "2.5"), Entry(F2, "0"), Entry(F3, "2.0")>>))
  /\ Len(PassesOfRun) = Len(RunSeries) - 1

====
